---- MODULE Spec2Model ----
(***************************************************************************)
(* Temperature candlestick aggregation, the three prediction models, and  *)
(* forward-chaining validation and rolling prediction of the models        *)
(* (OOP/temperature-analysis-tool, OOP/weatherPredictor).                  *)
(*                                                                         *)
(* Temperatures are doubles in the program; here they are exact rationals  *)
(* <<numerator, denominator>> in lowest terms, so rounding is left out.    *)
(* Date strings are sequences of character codes, so substr and the        *)
(* lexicographic operator< of std::string are computed, not assumed.       *)
(***************************************************************************)
EXTENDS Integers, Sequences, FiniteSets, TLC

VARIABLES
    records,        \* std::vector<TemperatureRecord> handed to computeCandlesticks
    timeframe,      \* TimeFrame argument of the last computeCandlesticks call
    impl,           \* which computeCandlesticks ran: "TAT" or "WP"
    candlesticks,   \* std::vector<Candlestick> it returned
    pc,             \* "load": records are being loaded; "done": computeCandlesticks returned
    data,           \* std::vector<Candlestick> handed to validateModel / generateRollingPredictions
    modelFunction,  \* the PredictionFunction argument
    op,             \* the running operation: "validatePV", "validateP", "rollPC" or "rollP"
    minTrainingSize,\* int minTrainingSize (validateModel) or int startIndex (rolling)
    testIndex,      \* the loop variable (0-based, as in the code)
    errors,         \* std::vector<double> errors
    squaredErrors,  \* std::vector<double> squaredErrors
    result,         \* ValidationResult result
    predictions,    \* the PredictionResult (or exception) of each model invocation, in order
    calls,          \* the trainingData argument of each model invocation, in order
    vpc,            \* "setup", "ready", "loop", "returned", or "threw" (left by an exception)
    runs,           \* how many times the operation has been started on a history
    prevData,       \* the history of the previous run
    prevPredictions,\* the predictions of the previous run
    bars,           \* std::vector<Candlestick> handed to one call of a prediction model
    predictor,      \* the model called: "Linear", "MovingAverage" or "Heuristic"
    window,         \* int windowSize of a predictMovingAverageWithConfidence call
    outcome,        \* the PredictionResult the call returned
    mpc,            \* "setup": bars are being built; "returned": the model returned
    divisors,       \* the divisor of every division the running operation has made
    requests,       \* per concurrent caller: the call it made (operation, model, arguments)
    frames,         \* per concurrent call: its local variables (automatic storage)
    results,        \* std::vector<ValidationResult> returned by validateAllModels
    validated,      \* the validateModel calls validateAllModels made: model, minTrainingSize
    originalData,   \* const std::vector<Candlestick>& originalData of the filtering workflow
    dataForAnalysis,\* std::vector<Candlestick>& dataForAnalysis
    filtersApplied, \* int filtersApplied
    wasFiltered,    \* the bool the filtering workflow returned
    applied,        \* the vector each applyFilter call returned, in order
    fpc             \* "setup", "asking", "loop" or "returned"

aggVars == <<records, timeframe, impl, candlesticks, pc>>

valVars == <<data, modelFunction, op, minTrainingSize, testIndex, errors, squaredErrors,
             result, predictions, calls, vpc, runs, prevData, prevPredictions>>

modVars == <<bars, predictor, window, outcome, mpc>>

concVars == <<requests, frames>>

appVars == <<results, validated, originalData, dataForAnalysis, filtersApplied, wasFiltered,
             applied, fpc>>

vars == <<aggVars, valVars, modVars, divisors, concVars, appVars>>

----------------------------------------------------------------------------
(* Bounds of the model *)

MaxRecords == 3

\* Most records loaded when the order of the records is varied
MaxReorderedRecords == 3

\* Longest history of a single validation or rolling run
MaxBars == 5

\* Longest Bar sequence handed to the filtering workflow
MaxFilterBars == 3

\* Most filter applications in one run of the filtering workflow
MaxFilterRounds == 3

\* Longest history handed to validateAllModels
MaxAllBars == 4

\* Longest history when the operation is run on two histories in turn
MaxPairBars == 3

\* Longest history handed to a single call of a prediction model
MaxModelBars == 4

\* Longest history shared by concurrent calls
MaxSharedBars == 3

----------------------------------------------------------------------------
(* Exact rational arithmetic standing for double *)

Abs(x) == IF x < 0 THEN -x ELSE x

RECURSIVE GCD(_, _)
GCD(a, b) == IF b = 0 THEN a ELSE GCD(b, a % b)

\* A division by zero does not trap for double: x / 0 is an infinity, <<1, 0>>
\* or <<-1, 0>>, and 0 / 0 is the NaN <<0, 0>>
Rat(n, d) ==
    LET s == IF d < 0 THEN -1 ELSE 1
        g == GCD(Abs(n), Abs(d))
    IN  IF g = 0 THEN <<0, 0>> ELSE <<(s * n) \div g, (s * d) \div g>>

RInt(n) == <<n, 1>>
RAdd(a, b) == Rat(a[1] * b[2] + b[1] * a[2], a[2] * b[2])
RSub(a, b) == Rat(a[1] * b[2] - b[1] * a[2], a[2] * b[2])
RMul(a, b) == Rat(a[1] * b[1], a[2] * b[2])
RDiv(a, b) == Rat(a[1] * b[2], a[2] * b[1])
RAbs(a) == <<Abs(a[1]), a[2]>>
RLt(a, b) == a[1] * b[2] < b[1] * a[2]
RLe(a, b) == a[1] * b[2] <= b[1] * a[2]
RMin(a, b) == IF RLt(b, a) THEN b ELSE a
RMax(a, b) == IF RLt(a, b) THEN b ELSE a

----------------------------------------------------------------------------
(* std::string as a sequence of character codes *)

Digits2(n) == <<48 + (n \div 10), 48 + (n % 10)>>
Digits4(n) == Digits2(n \div 100) \o Digits2(n % 100)

\* "YYYY-MM-DD"
MkDate(y, m, d) == Digits4(y) \o <<45>> \o Digits2(m) \o <<45>> \o Digits2(d)

\* std::string::substr(pos, len) on a string at least pos + len long
Substr(s, pos, len) == SubSeq(s, pos + 1, pos + len)

\* operator< of std::string: lexicographic on character codes
RECURSIVE StrLess(_, _)
StrLess(a, b) ==
    IF b = <<>> THEN FALSE
    ELSE IF a = <<>> THEN TRUE
    ELSE IF Head(a) # Head(b) THEN Head(a) < Head(b)
    ELSE StrLess(Tail(a), Tail(b))

TimeFrames == {"Daily", "Monthly", "Yearly"}

\* The dates a loaded record can carry: DataLoader keeps any date string of
\* four or more characters, so short dates reach the aggregator.
Dates ==
    { MkDate(2020, 1, 1),
      MkDate(2020, 1, 2),
      MkDate(2020, 2, 1),
      MkDate(2021, 1, 1),
      MkDate(2020, 1, 1) \o <<32, 48, 54>>,       \* "2020-01-01 06"
      Substr(MkDate(2020, 1, 1), 0, 7) }          \* "2020-01": shorter than YYYY-MM-DD

Temps == {-1, 2}

TemperatureRecord == [date : Dates, temperature : Temps]

\* The records loaded in any order: two days of one month, a day of another
\* year, and a date too short for a daily key
ReorderedRecords ==
    [date : { MkDate(2020, 1, 1), MkDate(2020, 1, 2), MkDate(2021, 1, 1),
              Substr(MkDate(2020, 1, 1), 0, 7) },
     temperature : Temps]

----------------------------------------------------------------------------
(* CandlestickCalculator *)

getGroupKey(dateTime, tf) ==
    IF Len(dateTime) < 10 THEN <<>>
    ELSE LET year  == Substr(dateTime, 0, 4)
             month == Substr(dateTime, 5, 2)
             day   == Substr(dateTime, 8, 2)
         IN  CASE tf = "Yearly"  -> year
               [] tf = "Monthly" -> year \o <<45>> \o month
               [] tf = "Daily"   -> year \o <<45>> \o month \o <<45>> \o day
               [] OTHER          -> year

formatDateLabel(groupKey, tf) ==
    CASE tf = "Yearly"  -> groupKey \o <<45, 48, 49, 45, 48, 49>>
      [] tf = "Monthly" -> groupKey \o <<45, 48, 49>>
      [] tf = "Daily"   -> groupKey
      [] OTHER          -> groupKey \o <<45, 48, 49, 45, 48, 49>>

\* s with x put in before position p (1 .. Len(s) + 1)
InsertAt(s, p, x) == SubSeq(s, 1, p - 1) \o <<x>> \o SubSeq(s, p, Len(s))

\* std::sort with the comparator a.date < b.date. std::sort is not stable:
\* every permutation that is non-descending by date is a possible outcome.
RECURSIVE SortOutcomes(_)
SortOutcomes(recs) ==
    IF recs = <<>> THEN {<<>>}
    ELSE LET x == recs[Len(recs)]
             rest == SortOutcomes(SubSeq(recs, 1, Len(recs) - 1))
         IN  UNION { { InsertAt(s, p, x) :
                         p \in { q \in 1..(Len(s) + 1) :
                                   /\ \A i \in 1..(q - 1) : ~StrLess(x.date, s[i].date)
                                   /\ \A i \in q..Len(s) : ~StrLess(s[i].date, x.date) } } :
                     s \in rest }

\* Which records get an entry in groupedData. temperature-analysis-tool skips
\* an empty group key; weatherPredictor files every record, the empty key too.
Grouped(variant, rec, tf) ==
    IF variant = "TAT" THEN getGroupKey(rec.date, tf) # <<>> ELSE TRUE

\* groupedData[key]: the temperatures filed under key, in sorted-record order
RECURSIVE GroupTemps(_, _, _, _)
GroupTemps(variant, sorted, tf, key) ==
    IF sorted = <<>> THEN <<>>
    ELSE LET r == Head(sorted)
             rest == GroupTemps(variant, Tail(sorted), tf, key)
         IN  IF Grouped(variant, r, tf) /\ getGroupKey(r.date, tf) = key
             THEN <<r.temperature>> \o rest
             ELSE rest

GroupKeys(variant, sorted, tf) ==
    { getGroupKey(sorted[i].date, tf) :
        i \in { j \in 1..Len(sorted) : Grouped(variant, sorted[j], tf) } }

\* Mutant of MapOrder: the groups come out in descending key order
RECURSIVE MapOrderDescending(_)
MapOrderDescending(keys) ==
    IF keys = {} THEN <<>>
    ELSE LET k == CHOOSE x \in keys : \A y \in keys : ~StrLess(x, y)
         IN  <<k>> \o MapOrderDescending(keys \ {k})

\* Iteration order of std::map<std::string, ...>: ascending keys
RECURSIVE MapOrder(_)
MapOrder(keys) ==
    IF keys = {} THEN <<>>
    ELSE LET k == CHOOSE x \in keys : \A y \in keys : ~StrLess(y, x)
         IN  <<k>> \o MapOrder(keys \ {k})

RECURSIVE SumTemps(_)
SumTemps(temps) == IF temps = <<>> THEN 0 ELSE Head(temps) + SumTemps(Tail(temps))

\* Mutant of GroupHigh: high is never updated after temperatures[0]
GroupHighStale(temps) == temps[1]

\* Mutant of GroupLow: low is never updated after temperatures[0]
GroupLowStale(temps) == temps[1]

\* high = temperatures[0]; for each temp: if (temp > high) high = temp
\* Mutant of GroupHigh: the first temperature filed under the key
GroupFirst(temps) == temps[1]

RECURSIVE GroupHigh(_)
GroupHigh(temps) ==
    IF Len(temps) = 1 THEN temps[1]
    ELSE LET h == GroupHigh(SubSeq(temps, 1, Len(temps) - 1))
             t == temps[Len(temps)]
         IN  IF t > h THEN t ELSE h

\* low = temperatures[0]; for each temp: if (temp < low) low = temp
RECURSIVE GroupLow(_)
GroupLow(temps) ==
    IF Len(temps) = 1 THEN temps[1]
    ELSE LET l == GroupLow(SubSeq(temps, 1, Len(temps) - 1))
             t == temps[Len(temps)]
         IN  IF t < l THEN t ELSE l

\* sum / temperatures.size()
GroupAverage(temps) == Rat(SumTemps(temps), Len(temps))

\* Mutant of OpenValue: the group-mean policy, open is always the period's own average
OpenValueOwnAverage(hasPreviousPeriod, previousPeriodAverage, currentPeriodAverage) ==
    currentPeriodAverage

\* Mutant of OpenValue: the first-period case is forgotten, open is the initial 0.0 there
OpenValueNoFirstCase(hasPreviousPeriod, previousPeriodAverage, currentPeriodAverage) ==
    previousPeriodAverage

\* Mutant of OpenValue: previousPeriodAverage is never updated and keeps its
\* initial 0.0
OpenValueNeverUpdated(hasPreviousPeriod, previousPeriodAverage, currentPeriodAverage) ==
    IF hasPreviousPeriod THEN RInt(0) ELSE currentPeriodAverage

\* open = hasPreviousPeriod ? previousPeriodAverage : currentPeriodAverage
OpenValue(hasPreviousPeriod, previousPeriodAverage, currentPeriodAverage) ==
    IF hasPreviousPeriod THEN previousPeriodAverage ELSE currentPeriodAverage

Candlestick(date, open, close, high, low) ==
    [date |-> date, open |-> open, close |-> close, high |-> high, low |-> low]

\* The loop over groupedData, carrying previousPeriodAverage / hasPreviousPeriod
RECURSIVE ProcessGroups(_, _, _, _, _, _)
ProcessGroups(variant, sorted, tf, keys, hasPrev, prevAvg) ==
    IF keys = <<>> THEN <<>>
    ELSE LET temps == GroupTemps(variant, sorted, tf, Head(keys))
             avg == GroupAverage(temps)
             bar == Candlestick(formatDateLabel(Head(keys), tf),
                                OpenValue(hasPrev, prevAvg, avg), avg,
                                RInt(GroupHigh(temps)), RInt(GroupLow(temps)))
         IN  <<bar>> \o ProcessGroups(variant, sorted, tf, Tail(keys), TRUE, avg)

\* computeCandlesticks after the sort: grouping and the loop over the groups
BuildCandlesticks(variant, sorted, tf) ==
    ProcessGroups(variant, sorted, tf, MapOrder(GroupKeys(variant, sorted, tf)),
                  FALSE, RInt(0))

----------------------------------------------------------------------------
(* Prediction models *)

\* The close values a history is built from
Closes == {0, 3}

\* high - close and close - low of the Bars handed to the filtering workflow
Spreads == {0, 2}

\* A Bar of a history; the validator reads only its close
HistoryBar(c) == Candlestick(<<>>, RInt(c), RInt(c), RInt(c), RInt(c))

\* PredictionResult(prediction, confidence, name, confDesc): isValid = true
PredictionResult(prediction, confidence) ==
    [predictionValue |-> prediction, confidenceMetric |-> confidence,
     isValid |-> TRUE, errorMessage |-> ""]

\* A valid result of a PredictionFunction that reports no confidence
ValidPrediction(value) == PredictionResult(value, RInt(0))

\* PredictionResult(error, name): isValid = false, predictionValue = 0.0,
\* confidenceMetric = 0.0
InvalidPrediction(error) ==
    [predictionValue |-> RInt(0), confidenceMetric |-> RInt(0),
     isValid |-> FALSE, errorMessage |-> error]

\* What one call of a PredictionFunction does: return a result or throw
Returns(res) == [throws |-> FALSE, res |-> res]
Throws == [throws |-> TRUE, res |-> InvalidPrediction("std::exception")]

RECURSIVE SumCloses(_)
SumCloses(d) == IF d = <<>> THEN RInt(0) ELSE RAdd(Head(d).close, SumCloses(Tail(d)))

Min2(a, b) == IF a < b THEN a ELSE b
Max2(a, b) == IF a < b THEN b ELSE a

RECURSIVE SumSeq(_)
SumSeq(v) == IF v = <<>> THEN RInt(0) ELSE RAdd(Head(v), SumSeq(Tail(v)))

\* Mutant of calculateMean: the sum, not divided by the count
calculateMeanUndivided(values) == SumSeq(values)

calculateMean(values) ==
    IF values = <<>> THEN RInt(0) ELSE RDiv(SumSeq(values), RInt(Len(values)))

\* The largest r in lo..hi with r * r <= n
RECURSIVE FloorSqrt(_, _, _)
FloorSqrt(n, lo, hi) ==
    IF lo = hi THEN lo
    ELSE LET mid == (lo + hi + 1) \div 2
         IN  IF mid * mid <= n THEN FloorSqrt(n, mid, hi) ELSE FloorSqrt(n, lo, mid - 1)

ISqrt(n) == FloorSqrt(n, 0, Min2(n, 46340))

\* std::sqrt rounds to the nearest double; here the root is exact when x is the
\* square of a fraction and is otherwise rounded down to a multiple of
\* 1 / SqrtScale
SqrtScale == 100

Sqrt(x) ==
    LET rn == ISqrt(x[1])
        rd == ISqrt(x[2])
    IN  IF rn * rn = x[1] /\ rd * rd = x[2] THEN Rat(rn, rd)
        ELSE Rat(ISqrt((x[1] * SqrtScale * SqrtScale) \div x[2]), SqrtScale)

\* Mutant of BelowEpsilon: zero is not below the threshold
BelowZero(x) == RLt(x, RInt(0))

\* x < 1e-10. Every value compared is a fraction whose denominator is below
\* 2^31, so a positive one is at least 2^-31 > 1e-10: the test is x <= 0.
BelowEpsilon(x) == RLe(x, RInt(0))

\* totalSumSquares += (actualY - meanY) * (actualY - meanY)
TotalSumSquares(d) ==
    LET meanY == RDiv(SumCloses(d), RInt(Len(d)))
    IN  SumSeq([i \in 1..Len(d) |->
                   RMul(RSub(d[i].close, meanY), RSub(d[i].close, meanY))])

\* Mutant of calculateRSquaredDetailed: a zero total sum of squares counts as a
\* perfect fit
calculateRSquaredNoGuard(d, slope, intercept) ==
    LET n == Len(d)
        totalSumSquares == TotalSumSquares(d)
        predictedY(i) == RAdd(RMul(slope, RInt(i - 1)), intercept)
        residualSumSquares ==
            SumSeq([i \in 1..n |-> RMul(RSub(d[i].close, predictedY(i)),
                                        RSub(d[i].close, predictedY(i)))])
    IN  IF BelowEpsilon(totalSumSquares) THEN RInt(1)
        ELSE RMax(RInt(0), RSub(RInt(1), RDiv(residualSumSquares, totalSumSquares)))

calculateRSquaredDetailed(d, slope, intercept) ==
    IF Len(d) < 2 THEN RInt(0)
    ELSE LET n == Len(d)
             totalSumSquares == TotalSumSquares(d)
             predictedY(i) == RAdd(RMul(slope, RInt(i - 1)), intercept)
             residualSumSquares ==
                 SumSeq([i \in 1..n |-> RMul(RSub(d[i].close, predictedY(i)),
                                             RSub(d[i].close, predictedY(i)))])
         IN  IF BelowEpsilon(totalSumSquares) THEN RInt(0)
             ELSE RMax(RInt(0), RSub(RInt(1), RDiv(residualSumSquares, totalSumSquares)))

calculateStandardDeviation(values, mean) ==
    IF Len(values) < 2 THEN RInt(0)
    ELSE LET sumSquaredDiffs ==
                 SumSeq([i \in 1..Len(values) |->
                            RMul(RSub(values[i], mean), RSub(values[i], mean))])
         IN  Sqrt(RDiv(sumSquaredDiffs, RInt(Len(values) - 1)))

\* recentValues: the closes from index max(0, size - windowSize) on
RecentValues(d, windowSize) ==
    LET start == Max2(0, Len(d) - windowSize)
    IN  [i \in 1..(Len(d) - start) |-> d[start + i].close]

\* (mean > 0) ? stdDev / std::abs(mean) : stdDev
RelativeVolatility(stdDev, mean) ==
    IF RLt(RInt(0), mean) THEN RDiv(stdDev, RAbs(mean)) ELSE stdDev

\* Mutant of calculateStabilityConfidence: no early return, the formula is
\* evaluated on every window
calculateStabilityNoShortCase(d, windowSize) ==
    LET recentValues == RecentValues(d, windowSize)
        mean == calculateMean(recentValues)
        stdDev == calculateStandardDeviation(recentValues, mean)
        stabilityConfidence ==
            RDiv(RInt(1), RAdd(RInt(1), RMul(RelativeVolatility(stdDev, mean), RInt(5))))
    IN  RMin(RInt(1), RMax(RInt(0), stabilityConfidence))

calculateStabilityConfidence(d, windowSize) ==
    IF Len(d) < 2 \/ windowSize < 2 THEN RInt(0)
    ELSE LET recentValues == RecentValues(d, windowSize)
         IN  IF Len(recentValues) < 2 THEN RInt(0)
             ELSE LET mean == calculateMean(recentValues)
                      stdDev == calculateStandardDeviation(recentValues, mean)
                      relativeVolatility == RelativeVolatility(stdDev, mean)
                      stabilityConfidence ==
                          RDiv(RInt(1), RAdd(RInt(1), RMul(relativeVolatility, RInt(5))))
                  IN  RMin(RInt(1), RMax(RInt(0), stabilityConfidence))

\* Mutant of Changes: the first difference is left out
ChangesButFirst(d) == [i \in 1..(Len(d) - 2) |-> RSub(d[i + 2].close, d[i + 1].close)]

\* changes: close[i] - close[i-1] for every adjacent pair
Changes(d) == [i \in 1..(Len(d) - 1) |-> RSub(d[i + 1].close, d[i].close)]

\* Mutant of calculateConsistencyConfidence: the standard deviation of the
\* changes is returned as it is
calculateConsistencyUnscaled(d) ==
    IF Len(d) < 3 THEN RInt(0)
    ELSE LET changes == Changes(d)
         IN  calculateStandardDeviation(changes, calculateMean(changes))

calculateConsistencyConfidence(d) ==
    IF Len(d) < 3 THEN RInt(0)
    ELSE LET changes == Changes(d)
         IN  IF Len(changes) < 2 THEN RInt(0)
             ELSE LET changeMean == calculateMean(changes)
                      changeStdDev == calculateStandardDeviation(changes, changeMean)
                      changeVariability ==
                          RDiv(changeStdDev, RAdd(RAbs(changeMean), RInt(1)))
                      consistencyConfidence ==
                          RDiv(RInt(1), RAdd(RInt(1), changeVariability))
                  IN  RMin(RInt(1), RMax(RInt(0), consistencyConfidence))

\* Mutant of LinearDenominator: the factor n is left out
LinearDenominatorWithoutN(d) ==
    LET n == Len(d)
        sumX == SumSeq([i \in 1..n |-> RInt(i - 1)])
        sumX2 == SumSeq([i \in 1..n |-> RInt((i - 1) * (i - 1))])
    IN  RSub(sumX2, RMul(sumX, sumX))

\* denominator = n * sumX2 - sumX * sumX
LinearDenominator(d) ==
    LET n == Len(d)
        sumX == SumSeq([i \in 1..n |-> RInt(i - 1)])
        sumX2 == SumSeq([i \in 1..n |-> RInt((i - 1) * (i - 1))])
    IN  RSub(RMul(RInt(n), sumX2), RMul(sumX, sumX))

\* Mutant of predictLinearWithConfidence: a single Bar passes the size check and
\* gets the mean of the closes
predictLinearMinOne(d) ==
    IF Len(d) < 1 THEN InvalidPrediction("Insufficient data (need at least 2 points)")
    ELSE PredictionResult(RDiv(SumCloses(d), RInt(Len(d))), RInt(0))

predictLinearWithConfidence(d) ==
    IF Len(d) < 2 THEN InvalidPrediction("Insufficient data (need at least 2 points)")
    ELSE LET n == Len(d)
             sumX == SumSeq([i \in 1..n |-> RInt(i - 1)])
             sumY == SumCloses(d)
             sumXY == SumSeq([i \in 1..n |-> RMul(RInt(i - 1), d[i].close)])
             denominator == LinearDenominator(d)
         IN  IF BelowEpsilon(RAbs(denominator))
             THEN PredictionResult(RDiv(sumY, RInt(n)), RInt(0))
             ELSE LET slope == RDiv(RSub(RMul(RInt(n), sumXY), RMul(sumX, sumY)),
                                    denominator)
                      intercept == RDiv(RSub(sumY, RMul(slope, sumX)), RInt(n))
                      prediction == RAdd(RMul(slope, RInt(n)), intercept)
                      rSquared == calculateRSquaredDetailed(d, slope, intercept)
                  IN  PredictionResult(prediction, rSquared)

\* Mutant of DefaultedWindow: a non-positive window becomes 1
DefaultedWindowOne(windowSize) == IF windowSize <= 0 THEN 1 ELSE windowSize

\* if (windowSize <= 0) windowSize = 3;  // Default window
DefaultedWindow(windowSize) == IF windowSize <= 0 THEN 3 ELSE windowSize

\* Mutant of predictMovingAverageWithConfidence: the window is ignored and the
\* mean is taken over the whole history
predictMovingAverageWholeHistory(d, windowSize) ==
    IF d = <<>> THEN InvalidPrediction("No data available")
    ELSE PredictionResult(RDiv(SumCloses(d), RInt(Len(d))),
                          calculateStabilityConfidence(d, Len(d)))

predictMovingAverageWithConfidence(d, windowSize) ==
    IF d = <<>> THEN InvalidPrediction("No data available")
    ELSE LET w == DefaultedWindow(windowSize)
             actualWindowSize == Min2(w, Len(d))
             sum == SumCloses(SubSeq(d, Len(d) - actualWindowSize + 1, Len(d)))
             stabilityConfidence == calculateStabilityConfidence(d, actualWindowSize)
         IN  PredictionResult(RDiv(sum, RInt(actualWindowSize)), stabilityConfidence)

\* Mutant of predictHeuristicWithConfidence: the last close is repeated
predictHeuristicNoMomentum(d) ==
    IF d = <<>> THEN InvalidPrediction("No data available")
    ELSE PredictionResult(d[Len(d)].close, RInt(0))

predictHeuristicWithConfidence(d) ==
    IF d = <<>> THEN InvalidPrediction("No data available")
    ELSE IF Len(d) = 1 THEN PredictionResult(d[1].close, RInt(0))
    ELSE LET last == d[Len(d)].close
             secondLast == d[Len(d) - 1].close
             change == RSub(last, secondLast)
             consistencyConfidence == calculateConsistencyConfidence(d)
         IN  PredictionResult(RAdd(last, change), consistencyConfidence)

\* The divisors of the divisions each function makes, in the order it makes them

calculateMeanDivisors(values) ==
    IF values = <<>> THEN <<>> ELSE <<RInt(Len(values))>>

calculateStandardDeviationDivisors(values) ==
    IF Len(values) < 2 THEN <<>> ELSE <<RInt(Len(values) - 1)>>

calculateRSquaredDivisors(d) ==
    IF Len(d) < 2 THEN <<>>
    ELSE <<RInt(Len(d))>> \o
         ( IF BelowEpsilon(TotalSumSquares(d)) THEN <<>> ELSE <<TotalSumSquares(d)>> )

calculateStabilityDivisors(d, windowSize) ==
    IF Len(d) < 2 \/ windowSize < 2 THEN <<>>
    ELSE LET recentValues == RecentValues(d, windowSize)
         IN  IF Len(recentValues) < 2 THEN <<>>
             ELSE LET mean == calculateMean(recentValues)
                      stdDev == calculateStandardDeviation(recentValues, mean)
                  IN  calculateMeanDivisors(recentValues) \o
                      calculateStandardDeviationDivisors(recentValues) \o
                      ( IF RLt(RInt(0), mean) THEN <<RAbs(mean)>> ELSE <<>> ) \o
                      <<RAdd(RInt(1), RMul(RelativeVolatility(stdDev, mean), RInt(5)))>>

calculateConsistencyDivisors(d) ==
    IF Len(d) < 3 THEN <<>>
    ELSE LET changes == Changes(d)
         IN  IF Len(changes) < 2 THEN <<>>
             ELSE LET changeMean == calculateMean(changes)
                      changeStdDev == calculateStandardDeviation(changes, changeMean)
                      divisor == RAdd(RAbs(changeMean), RInt(1))
                  IN  calculateMeanDivisors(changes) \o
                      calculateStandardDeviationDivisors(changes) \o
                      <<divisor, RAdd(RInt(1), RDiv(changeStdDev, divisor))>>

predictLinearDivisors(d) ==
    IF Len(d) < 2 THEN <<>>
    ELSE IF BelowEpsilon(RAbs(LinearDenominator(d))) THEN <<RInt(Len(d))>>
    ELSE <<LinearDenominator(d), RInt(Len(d))>> \o calculateRSquaredDivisors(d)

predictMovingAverageDivisors(d, windowSize) ==
    IF d = <<>> THEN <<>>
    ELSE LET actualWindowSize == Min2(DefaultedWindow(windowSize), Len(d))
         IN  <<RInt(actualWindowSize)>> \o calculateStabilityDivisors(d, actualWindowSize)

predictHeuristicDivisors(d) ==
    IF Len(d) < 2 THEN <<>> ELSE calculateConsistencyDivisors(d)

\* The PredictionFunction arguments: the lambdas of validateAllModels, and two
\* functions that fail on some inputs (a std::function may throw or reject)
Models == {"Linear", "MovingAverage", "Heuristic", "Throwing", "Rejecting"}

Fails(d) == d = <<>> \/ d[Len(d)].close = RInt(0)

\* modelFunction(trainingData)
Invoke(model, d) ==
    CASE model = "Linear"        -> Returns(predictLinearWithConfidence(d))
      [] model = "MovingAverage" -> Returns(predictMovingAverageWithConfidence(d, 3))
      [] model = "Heuristic"     -> Returns(predictHeuristicWithConfidence(d))
      [] model = "Throwing"      -> IF Fails(d) THEN Throws
                                    ELSE Returns(ValidPrediction(d[Len(d)].close))
      [] model = "Rejecting"     -> IF Fails(d) THEN Returns(InvalidPrediction("rejected"))
                                    ELSE Returns(ValidPrediction(d[Len(d)].close))

\* The divisions of modelFunction(trainingData)
InvokeDivisors(model, d) ==
    CASE model = "Linear"        -> predictLinearDivisors(d)
      [] model = "MovingAverage" -> predictMovingAverageDivisors(d, 3)
      [] model = "Heuristic"     -> predictHeuristicDivisors(d)
      [] OTHER                   -> <<>>

----------------------------------------------------------------------------
(* PredictionValidation::validateModel, Prediction::validateModel and        *)
(* PredictionChart::generateRollingPredictions                               *)

ValidateOps == {"validatePV", "validateP"}
\* PredictionChart::generateRollingPredictions and Prediction::generateRollingPredictions
RollOps == {"rollPC", "rollP"}
Ops == ValidateOps \cup RollOps

\* ValidationResult as default-constructed: errorMessage is "Uninitialized" in
\* Prediction.h and empty in PredictionValidation.h
DefaultValidationResult(o) ==
    [meanAbsoluteError |-> RInt(0), meanSquaredError |-> RInt(0),
     maxError |-> RInt(0), minError |-> RInt(0),
     validPredictions |-> 0, totalAttempts |-> 0,
     isValid |-> FALSE,
     errorMessage |-> IF o = "validatePV" THEN <<>> ELSE <<"Uninitialized">>]

\* "Insufficient data for validation (need at least <minTrainingSize + 1> points)"
InsufficientMessage(m) ==
    <<"Insufficient data for validation (need at least ", m + 1, " points)">>

NoValidMessage == <<"No valid predictions generated during validation">>

\* Mutant of InsufficientData: the comparison is off by one
InsufficientDataOffByOne(n, m) == n < m

\* static_cast<int>(data.size()) < minTrainingSize + 1
InsufficientData(n, m) == n < m + 1

\* Mutant of FirstTestIndex: the loop starts one index late
FirstTestIndexLate(m) == m + 1

\* size_t testIndex = static_cast<size_t>(minTrainingSize)
FirstTestIndex(m) == m

\* Mutant of TrainingData: the tested Bar is part of the training data
TrainingDataWithTested(d, i) == SubSeq(d, 1, i + 1)

\* trainingData(data.begin(), data.begin() + testIndex)
TrainingData(d, i) == SubSeq(d, 1, i)

\* data[testIndex].getClose()
ActualValue(d, i) == d[i + 1].close

\* Mutant of MaxElement: the first error is taken for the largest
FirstElement(v) == v[1]

RECURSIVE MaxElement(_)
MaxElement(v) ==
    IF Len(v) = 1 THEN v[1] ELSE RMax(v[1], MaxElement(Tail(v)))

RECURSIVE MinElement(_)
MinElement(v) ==
    IF Len(v) = 1 THEN v[1] ELSE RMin(v[1], MinElement(Tail(v)))

\* Mutant of PushBack: an invalid result is dropped
PushBackIfValid(v, out) == IF out.res.isValid THEN Append(v, out) ELSE v

\* predictions.push_back(prediction)
PushBack(v, out) == Append(v, out)

\* The mutant of AccuracyErrors: each prediction compared with the Bar at its own
\* position in the vector
RECURSIVE AccuracyErrorsUnshifted(_, _, _, _)
AccuracyErrorsUnshifted(d, preds, startIdx, i) ==
    IF i <= startIdx THEN <<>>
    ELSE AccuracyErrorsUnshifted(d, preds, startIdx, i - 1) \o
         ( IF (i - 1) - startIdx < Len(preds) /\ preds[i - startIdx].res.isValid
           THEN <<RAbs(RSub(d[i - startIdx].close, preds[i - startIdx].res.predictionValue))>>
           ELSE <<>> )

\* PredictionChart::displayAccuracyAnalysis, the errors of one model: the loop
\* variable runs over startIdx .. i - 1 (0-based), each valid prediction
\* compared with the close of the Bar at that index
RECURSIVE AccuracyErrors(_, _, _, _)
AccuracyErrors(d, preds, startIdx, i) ==
    IF i <= startIdx THEN <<>>
    ELSE AccuracyErrors(d, preds, startIdx, i - 1) \o
         ( IF (i - 1) - startIdx < Len(preds) /\ preds[i - startIdx].res.isValid
           THEN <<RAbs(RSub(d[i].close, preds[i - startIdx].res.predictionValue))>>
           ELSE <<>> )

\* All histories of up to limit Bars
Histories(limit) ==
    UNION { [1..k -> { HistoryBar(c) : c \in Closes }] : k \in 0..limit }

----------------------------------------------------------------------------
(* Concurrent calls over one Bar sequence: the functions are static members  *)
(* that take const std::vector<Candlestick>& and keep everything else in     *)
(* local variables                                                           *)

\* The concurrent callers
Threads == {1, 2}

\* The operations called concurrently: one model call, validateModel,
\* generateRollingPredictions
ConcurrentOps == {"predict", "validatePV", "rollP"}

\* The lambdas of validateAllModels
CoreModels == {"Linear", "MovingAverage", "Heuristic"}

NoRequest == [active |-> FALSE, op |-> "predict", model |-> "Linear", m |-> 0, given |-> <<>>]

IdleFrame ==
    [pc |-> "idle", op |-> "predict", model |-> "Linear", testIndex |-> 0,
     errors |-> <<>>, squaredErrors |-> <<>>,
     result |-> DefaultValidationResult("validatePV"), predictions |-> <<>>]

\* Mutant of FrameOf: the local variables have static storage, one copy for all calls
StaticFrame(t) == 1

\* The local variables of a call have automatic storage: each call has its own
FrameOf(t) == t

\* The local variables of a call at its entry, up to the first loop test
EntryFrame(o, mf, m, d) ==
    LET f == [IdleFrame EXCEPT !.op = o, !.model = mf]
    IN  CASE o = "predict" -> [f EXCEPT !.pc = "loop"]
          [] o \in ValidateOps ->
                IF InsufficientData(Len(d), m)
                THEN [f EXCEPT !.pc = "returned",
                               !.result = [DefaultValidationResult(o) EXCEPT
                                              !.errorMessage = InsufficientMessage(m)]]
                ELSE [f EXCEPT !.pc = "loop", !.testIndex = FirstTestIndex(m),
                               !.result = DefaultValidationResult(o)]
          [] o = "rollP" -> [f EXCEPT !.pc = "loop", !.testIndex = m]

\* One step of a call: the model call of "predict", or one loop iteration or
\* the code after the loop of validateModel / generateRollingPredictions
StepFrame(f, d) ==
    CASE f.op = "predict" ->
            [f EXCEPT !.predictions = <<Invoke(f.model, d)>>, !.pc = "returned"]
      [] f.op \in ValidateOps ->
            IF f.testIndex < Len(d)
            THEN LET out == Invoke(f.model, TrainingData(d, f.testIndex))
                     diff == RSub(out.res.predictionValue, ActualValue(d, f.testIndex))
                 IN  IF out.throws /\ f.op = "validateP"
                     THEN [f EXCEPT !.predictions = PushBack(@, out), !.pc = "threw"]
                     ELSE IF ~out.throws /\ out.res.isValid
                          THEN [f EXCEPT !.predictions = PushBack(@, out),
                                         !.errors = Append(@, RAbs(diff)),
                                         !.squaredErrors = Append(@, RMul(diff, diff)),
                                         !.result.validPredictions = @ + 1,
                                         !.result.totalAttempts = @ + 1,
                                         !.testIndex = @ + 1]
                          ELSE [f EXCEPT !.predictions = PushBack(@, out),
                                         !.result.totalAttempts = @ + 1,
                                         !.testIndex = @ + 1]
            ELSE IF f.errors = <<>>
                 THEN [f EXCEPT !.result.errorMessage = NoValidMessage, !.pc = "returned"]
                 ELSE [f EXCEPT !.result.meanAbsoluteError = calculateMean(f.errors),
                                !.result.meanSquaredError = calculateMean(f.squaredErrors),
                                !.result.maxError = MaxElement(f.errors),
                                !.result.minError = MinElement(f.errors),
                                !.result.isValid = TRUE,
                                !.pc = "returned"]
      [] f.op = "rollP" ->
            IF f.testIndex < Len(d)
            THEN [f EXCEPT !.predictions =
                               PushBack(@, Invoke(f.model, TrainingData(d, f.testIndex))),
                           !.testIndex = @ + 1]
            ELSE [f EXCEPT !.pc = "returned"]

\* The call run from f to its return with nothing else running
RECURSIVE RunAlone(_, _)
RunAlone(f, d) == IF f.pc # "loop" THEN f ELSE RunAlone(StepFrame(f, d), d)

----------------------------------------------------------------------------
(* validateAllModels *)

MIN_LINEAR_DATA_SIZE == 2

MIN_HEURISTIC_DATA_SIZE == 2

MIN_MOVING_AVERAGE_DATA_SIZE == 1

\* Mutant of ModelsToValidate: the linear model validated from one Bar on
ModelsFromOneBar ==
    << [model |-> "Linear", minSize |-> MIN_MOVING_AVERAGE_DATA_SIZE],
       [model |-> "MovingAverage", minSize |-> MIN_MOVING_AVERAGE_DATA_SIZE],
       [model |-> "Heuristic", minSize |-> MIN_HEURISTIC_DATA_SIZE] >>

\* The vector of (lambda, minimum size) pairs of validateAllModels, in its order;
\* Prediction::validateAllModels passes the same with the literals 2, 1, 2
ModelsToValidate ==
    << [model |-> "Linear", minSize |-> MIN_LINEAR_DATA_SIZE],
       [model |-> "MovingAverage", minSize |-> MIN_MOVING_AVERAGE_DATA_SIZE],
       [model |-> "Heuristic", minSize |-> MIN_HEURISTIC_DATA_SIZE] >>

\* One validateModel call, run to its return: its local variables at that point
validateModel(o, d, modelFunc, minSize) == RunAlone(EntryFrame(o, modelFunc, minSize, d), d)

----------------------------------------------------------------------------
(* DataFilter and the filtering workflow *)

\* The filters end in DataFilter's applyFilter template: std::copy_if over data
\* through std::back_inserter, here SelectSeq; an empty input has returned at
\* validateFilterInput before
filterByDateRange(d, startDate, endDate) ==
    IF d = <<>> THEN <<>>
    ELSE IF startDate = <<>> \/ endDate = <<>> THEN <<>>
    ELSE IF StrLess(endDate, startDate) THEN <<>>
    ELSE SelectSeq(d, LAMBDA candlestick :
                       /\ ~StrLess(candlestick.date, startDate)
                       /\ ~StrLess(endDate, candlestick.date))

\* getMeanTemperature() returns close_
filterByTemperatureRange(d, minTemp, maxTemp) ==
    IF d = <<>> THEN <<>>
    ELSE IF RLt(maxTemp, minTemp) THEN <<>>
    ELSE SelectSeq(d, LAMBDA candlestick :
                       /\ RLe(minTemp, candlestick.close)
                       /\ RLe(candlestick.close, maxTemp))

\* isUptrend() is close_ >= open_
filterByTrend(d, uptrend) ==
    IF d = <<>> THEN <<>>
    ELSE SelectSeq(d, LAMBDA candlestick :
                          RLe(candlestick.open, candlestick.close) = uptrend)

\* getVolatility() is high_ - low_; a negative minimum is replaced by 0
filterByVolatility(d, minVolatility) ==
    IF d = <<>> THEN <<>>
    ELSE LET threshold == IF RLt(minVolatility, RInt(0)) THEN RInt(0) ELSE minVolatility
         IN  SelectSeq(d, LAMBDA candlestick :
                           RLe(threshold, RSub(candlestick.high, candlestick.low)))

\* The dates and values applyFilter is given as criteria: getDateRangeFilter
\* takes YYYY-MM-DD dates, and filterByDateRange also handles an empty date
CriteriaDates == {<<>>, MkDate(2020, 1, 1), MkDate(2021, 1, 1), MkDate(2022, 12, 31)}

CriteriaTemps == {RInt(0), RInt(3)}

CriteriaVolatilities == {RInt(-1), RInt(0), RInt(4)}

\* What getFilterCriteria hands back: the filter type and the fields it uses
FilterCriteria ==
    [filterType : {"DateRange"}, startDate : CriteriaDates, endDate : CriteriaDates]
    \cup [filterType : {"TemperatureRange"}, minTemp : CriteriaTemps, maxTemp : CriteriaTemps]
    \cup [filterType : {"Trend"}, uptrend : BOOLEAN]
    \cup [filterType : {"Volatility"}, minVolatility : CriteriaVolatilities]

\* ApplicationController::applyFilter (and applyFilter of main.cpp): the switch
\* on the filter type
applyFilter(d, criteria) ==
    CASE criteria.filterType = "DateRange" ->
            filterByDateRange(d, criteria.startDate, criteria.endDate)
      [] criteria.filterType = "TemperatureRange" ->
            filterByTemperatureRange(d, criteria.minTemp, criteria.maxTemp)
      [] criteria.filterType = "Trend" -> filterByTrend(d, criteria.uptrend)
      [] criteria.filterType = "Volatility" -> filterByVolatility(d, criteria.minVolatility)

\* Mutant of KeptOrReplaced: the result replaces the dataset even when empty
AlwaysReplaced(filtered, current) == filtered

\* if (!filtered.empty()) dataForAnalysis = std::move(filtered): the dataset
\* after a filter application
KeptOrReplaced(filtered, current) == IF filtered # <<>> THEN filtered ELSE current

\* filtersApplied after an application in mode 1 (cumulative) or 2 (fresh)
FiltersAppliedAfter(filtered, mode, count) ==
    IF filtered # <<>> THEN (IF mode = 2 THEN 1 ELSE count + 1) ELSE count

----------------------------------------------------------------------------
(* Actions of the aggregation pipeline *)

Init ==
    /\ records = <<>>
    /\ timeframe = "Yearly"
    /\ impl = "TAT"
    /\ candlesticks = <<>>
    /\ pc = "load"
    /\ data = <<>>
    /\ modelFunction = "Heuristic"
    /\ op = "validatePV"
    /\ minTrainingSize = 0
    /\ testIndex = 0
    /\ errors = <<>>
    /\ squaredErrors = <<>>
    /\ result = DefaultValidationResult("validatePV")
    /\ predictions = <<>>
    /\ calls = <<>>
    /\ vpc = "setup"
    /\ runs = 0
    /\ prevData = <<>>
    /\ prevPredictions = <<>>
    /\ bars = <<>>
    /\ predictor = "Linear"
    /\ window = 0
    /\ outcome = InvalidPrediction("Uninitialized")
    /\ mpc = "setup"
    /\ divisors = <<>>
    /\ requests = [t \in Threads |-> NoRequest]
    /\ frames = [t \in Threads |-> IdleFrame]
    /\ results = <<>>
    /\ validated = <<>>
    /\ originalData = <<>>
    /\ dataForAnalysis = <<>>
    /\ filtersApplied = 0
    /\ wasFiltered = FALSE
    /\ applied = <<>>
    /\ fpc = "setup"

\* DataLoader appends one parsed record
LoadRecord(r) ==
    /\ pc = "load"
    /\ Len(records) < MaxRecords
    /\ records' = Append(records, r)
    /\ UNCHANGED <<timeframe, impl, candlesticks, pc>>
    /\ UNCHANGED valVars
    /\ UNCHANGED modVars
    /\ UNCHANGED divisors
    /\ UNCHANGED concVars
    /\ UNCHANGED appVars

\* CandlestickCalculator::computeCandlesticks, either source version
computeCandlesticks(variant, tf) ==
    /\ pc = "load"
    /\ timeframe' = tf
    /\ impl' = variant
    /\ IF records = <<>>
       THEN candlesticks' = <<>>
       ELSE \E sorted \in SortOutcomes(records) :
                candlesticks' = BuildCandlesticks(variant, sorted, tf)
    /\ pc' = "done"
    /\ UNCHANGED records
    /\ UNCHANGED valVars
    /\ UNCHANGED modVars
    /\ UNCHANGED divisors
    /\ UNCHANGED concVars
    /\ UNCHANGED appVars

ComputeTAT == \E tf \in TimeFrames : computeCandlesticks("TAT", tf)

ComputeWP == \E tf \in TimeFrames : computeCandlesticks("WP", tf)

Load == \E r \in TemperatureRecord : LoadRecord(r)

Next ==
    \/ Load
    \/ ComputeTAT
    \/ ComputeWP

Spec == Init /\ [][Next]_vars

\* DataLoader appends one of the records of ReorderedRecords
LoadReordered(r) ==
    /\ pc = "load"
    /\ Len(records) < MaxReorderedRecords
    /\ records' = Append(records, r)
    /\ UNCHANGED <<timeframe, impl, candlesticks, pc>>
    /\ UNCHANGED valVars
    /\ UNCHANGED modVars
    /\ UNCHANGED divisors
    /\ UNCHANGED concVars
    /\ UNCHANGED appVars

\* computeCandlesticks on records loaded in any order, equal dates included
NextReordered ==
    \/ \E r \in ReorderedRecords : LoadReordered(r)
    \/ ComputeTAT
    \/ ComputeWP

SpecReordered == Init /\ [][NextReordered]_vars

----------------------------------------------------------------------------
(* Actions of validation and rolling prediction *)

\* The caller adds one Bar to the history it will pass
AppendBar(limit, c) ==
    /\ vpc = "setup"
    /\ Len(data) < limit
    /\ data' = Append(data, HistoryBar(c))
    /\ UNCHANGED <<modelFunction, op, minTrainingSize, testIndex, errors, squaredErrors,
                   result, predictions, calls, vpc, runs, prevData, prevPredictions>>
    /\ UNCHANGED aggVars
    /\ UNCHANGED modVars
    /\ UNCHANGED divisors
    /\ UNCHANGED concVars
    /\ UNCHANGED appVars

\* A first call takes any arguments; a second call on another history takes the
\* same model, operation and minTrainingSize / startIndex
Callable(mf, o, m) ==
    \/ vpc = "setup"
    \/ vpc = "ready" /\ mf = modelFunction /\ o = op /\ m = minTrainingSize

\* validateModel entered with too little data: it returns at once
ValidateInsufficient(mf, o, m) ==
    /\ Callable(mf, o, m)
    /\ o \in ValidateOps
    /\ InsufficientData(Len(data), m)
    /\ modelFunction' = mf /\ op' = o /\ minTrainingSize' = m
    /\ result' = [DefaultValidationResult(o) EXCEPT !.errorMessage = InsufficientMessage(m)]
    /\ errors' = <<>> /\ squaredErrors' = <<>>
    /\ predictions' = <<>> /\ calls' = <<>>
    /\ testIndex' = 0
    /\ vpc' = "returned"
    /\ runs' = runs + 1
    /\ UNCHANGED <<data, prevData, prevPredictions>>
    /\ UNCHANGED aggVars
    /\ UNCHANGED modVars
    /\ divisors' = <<>>
    /\ UNCHANGED concVars
    /\ UNCHANGED appVars

\* validateModel entered with enough data: the loop starts at minTrainingSize
ValidateBegin(mf, o, m) ==
    /\ Callable(mf, o, m)
    /\ o \in ValidateOps
    /\ ~InsufficientData(Len(data), m)
    /\ modelFunction' = mf /\ op' = o /\ minTrainingSize' = m
    /\ result' = DefaultValidationResult(o)
    /\ errors' = <<>> /\ squaredErrors' = <<>>
    /\ predictions' = <<>> /\ calls' = <<>>
    /\ testIndex' = FirstTestIndex(m)
    /\ vpc' = "loop"
    /\ runs' = runs + 1
    /\ UNCHANGED <<data, prevData, prevPredictions>>
    /\ UNCHANGED aggVars
    /\ UNCHANGED modVars
    /\ divisors' = <<>>
    /\ UNCHANGED concVars
    /\ UNCHANGED appVars

\* One iteration of validateModel's loop
ValidateIteration ==
    /\ vpc = "loop"
    /\ op \in ValidateOps
    /\ testIndex < Len(data)
    /\ LET trainingData == TrainingData(data, testIndex)
           out == Invoke(modelFunction, trainingData)
           predResult == out.res
           actualValue == ActualValue(data, testIndex)
           diff == RSub(predResult.predictionValue, actualValue)
       IN  /\ calls' = Append(calls, trainingData)
           /\ predictions' = Append(predictions, out)
           /\ IF out.throws /\ op = "validateP"
              THEN \* Prediction::validateModel has no try block: the exception leaves it
                   /\ vpc' = "threw"
                   /\ UNCHANGED <<errors, squaredErrors, result, testIndex>>
              ELSE /\ IF ~out.throws /\ predResult.isValid
                      THEN /\ errors' = Append(errors, RAbs(diff))
                           /\ squaredErrors' = Append(squaredErrors, RMul(diff, diff))
                           /\ result' = [result EXCEPT
                                            !.validPredictions = @ + 1,
                                            !.totalAttempts = @ + 1]
                      ELSE /\ UNCHANGED <<errors, squaredErrors>>
                           /\ result' = [result EXCEPT !.totalAttempts = @ + 1]
                   /\ testIndex' = testIndex + 1
                   /\ UNCHANGED vpc
    /\ UNCHANGED <<data, modelFunction, op, minTrainingSize, runs, prevData, prevPredictions>>
    /\ UNCHANGED aggVars
    /\ UNCHANGED modVars
    /\ divisors' = divisors \o InvokeDivisors(modelFunction, TrainingData(data, testIndex))
    /\ UNCHANGED concVars
    /\ UNCHANGED appVars

\* After the loop: the metrics, or the no-valid-predictions error
ValidateFinish ==
    /\ vpc = "loop"
    /\ op \in ValidateOps
    /\ testIndex >= Len(data)
    /\ IF errors = <<>>
       THEN result' = [result EXCEPT !.errorMessage = NoValidMessage]
       ELSE result' = [result EXCEPT
                          !.meanAbsoluteError = calculateMean(errors),
                          !.meanSquaredError = calculateMean(squaredErrors),
                          !.maxError = MaxElement(errors),
                          !.minError = MinElement(errors),
                          !.isValid = TRUE]
    /\ vpc' = "returned"
    /\ UNCHANGED <<data, modelFunction, op, minTrainingSize, testIndex, errors, squaredErrors,
                   predictions, calls, runs, prevData, prevPredictions>>
    /\ UNCHANGED aggVars
    /\ UNCHANGED modVars
    /\ divisors' = IF errors = <<>> THEN divisors
                    ELSE divisors \o calculateMeanDivisors(errors)
                                  \o calculateMeanDivisors(squaredErrors)
    /\ UNCHANGED concVars
    /\ UNCHANGED appVars

\* generateRollingPredictions entered. In PredictionChart, predictions.reserve(
\* data.size() - startIndex) wraps around when startIndex > data.size() and
\* throws std::length_error; Prediction reserves nothing.
RollBegin(mf, o, m) ==
    /\ Callable(mf, o, m)
    /\ o \in RollOps
    /\ modelFunction' = mf /\ op' = o /\ minTrainingSize' = m
    /\ result' = DefaultValidationResult(o)
    /\ errors' = <<>> /\ squaredErrors' = <<>>
    /\ predictions' = <<>> /\ calls' = <<>>
    /\ testIndex' = m
    /\ vpc' = IF o = "rollPC" /\ m > Len(data) THEN "threw" ELSE "loop"
    /\ runs' = runs + 1
    /\ UNCHANGED <<data, prevData, prevPredictions>>
    /\ UNCHANGED aggVars
    /\ UNCHANGED modVars
    /\ divisors' = <<>>
    /\ UNCHANGED concVars
    /\ UNCHANGED appVars

\* One iteration of generateRollingPredictions' loop; an exception of the model
\* leaves the function
RollIteration ==
    /\ vpc = "loop"
    /\ op \in RollOps
    /\ testIndex < Len(data)
    /\ LET trainingData == TrainingData(data, testIndex)
           out == Invoke(modelFunction, trainingData)
       IN  /\ calls' = Append(calls, trainingData)
           /\ predictions' = PushBack(predictions, out)
           /\ vpc' = IF out.throws THEN "threw" ELSE "loop"
           /\ testIndex' = IF out.throws THEN testIndex ELSE testIndex + 1
    /\ UNCHANGED <<data, modelFunction, op, minTrainingSize, errors, squaredErrors, result,
                   runs, prevData, prevPredictions>>
    /\ UNCHANGED aggVars
    /\ UNCHANGED modVars
    /\ divisors' = divisors \o InvokeDivisors(modelFunction, TrainingData(data, testIndex))
    /\ UNCHANGED concVars
    /\ UNCHANGED appVars

RollFinish ==
    /\ vpc = "loop"
    /\ op \in RollOps
    /\ testIndex >= Len(data)
    /\ vpc' = "returned"
    /\ UNCHANGED <<data, modelFunction, op, minTrainingSize, testIndex, errors, squaredErrors,
                   result, predictions, calls, runs, prevData, prevPredictions>>
    /\ UNCHANGED aggVars
    /\ UNCHANGED modVars
    /\ UNCHANGED divisors
    /\ UNCHANGED concVars
    /\ UNCHANGED appVars

\* The caller keeps the outcome of the first run and passes another history
NextHistory(h) ==
    /\ vpc \in {"returned", "threw"}
    /\ runs = 1
    /\ prevData' = data
    /\ prevPredictions' = predictions
    /\ data' = h
    /\ vpc' = "ready"
    /\ UNCHANGED <<modelFunction, op, minTrainingSize, testIndex, errors, squaredErrors,
                   result, predictions, calls, runs>>
    /\ UNCHANGED aggVars
    /\ UNCHANGED modVars
    /\ UNCHANGED divisors
    /\ UNCHANGED concVars
    /\ UNCHANGED appVars

BuildHistory == \E c \in Closes : AppendBar(MaxBars, c)

BuildPairHistory == \E c \in Closes : AppendBar(MaxPairBars, c)

CallInsufficient ==
    \E mf \in Models, o \in ValidateOps, m \in 0..MaxBars : ValidateInsufficient(mf, o, m)

CallValidate ==
    \E mf \in Models, o \in ValidateOps, m \in 0..MaxBars : ValidateBegin(mf, o, m)

CallRolling ==
    \E mf \in Models, o \in Ops, m \in 0..MaxBars : RollBegin(mf, o, m)

PairCallInsufficient ==
    \E mf \in Models, o \in ValidateOps, m \in 0..MaxPairBars : ValidateInsufficient(mf, o, m)

PairCallValidate ==
    \E mf \in Models, o \in ValidateOps, m \in 0..MaxPairBars : ValidateBegin(mf, o, m)

PairCallRolling ==
    \E mf \in Models, o \in Ops, m \in 0..MaxPairBars : RollBegin(mf, o, m)

ChangeHistory == \E h \in Histories(MaxPairBars) : NextHistory(h)

\* The caller keeps the ValidationResult and then asks for the rolling
\* predictions of the same history with the same model and index
RollSameArguments(o) ==
    /\ vpc = "returned"
    /\ op \in ValidateOps
    /\ runs = 1
    /\ o \in RollOps
    /\ prevData' = data
    /\ prevPredictions' = predictions
    /\ op' = o
    /\ errors' = <<>> /\ squaredErrors' = <<>>
    /\ predictions' = <<>> /\ calls' = <<>>
    /\ testIndex' = minTrainingSize
    /\ vpc' = IF o = "rollPC" /\ minTrainingSize > Len(data) THEN "threw" ELSE "loop"
    /\ runs' = runs + 1
    /\ UNCHANGED <<data, modelFunction, minTrainingSize, result>>
    /\ UNCHANGED aggVars
    /\ UNCHANGED modVars
    /\ divisors' = <<>>
    /\ UNCHANGED concVars
    /\ UNCHANGED appVars

\* One run of validateModel or generateRollingPredictions on one history
NextValidation ==
    \/ BuildHistory
    \/ CallInsufficient
    \/ CallValidate
    \/ CallRolling
    \/ ValidateIteration
    \/ ValidateFinish
    \/ RollIteration
    \/ RollFinish

SpecValidation == Init /\ [][NextValidation]_vars

\* validateModel on a history, then generateRollingPredictions on the same
\* history with the same model and index
NextValidateThenRoll ==
    \/ BuildHistory
    \/ CallInsufficient
    \/ CallValidate
    \/ ValidateIteration
    \/ ValidateFinish
    \/ \E o \in RollOps : RollSameArguments(o)
    \/ RollIteration
    \/ RollFinish

SpecValidateThenRoll == Init /\ [][NextValidateThenRoll]_vars

\* The same operation run on one history and then on another
NextTwoHistories ==
    \/ BuildPairHistory
    \/ PairCallInsufficient
    \/ PairCallValidate
    \/ PairCallRolling
    \/ ValidateIteration
    \/ ValidateFinish
    \/ RollIteration
    \/ RollFinish
    \/ ChangeHistory

SpecTwoHistories == Init /\ [][NextTwoHistories]_vars

----------------------------------------------------------------------------
(* Single calls of the prediction models *)

\* The close values of the Bars handed to a model
ModelCloses == {-12, 10, 12, 14}

\* The windowSize arguments: non-positive, within the history, beyond it
Windows == -1..(MaxModelBars + 1)

\* The caller adds one Bar to the sequence it will pass
AppendModelBar(c) ==
    /\ mpc = "setup"
    /\ Len(bars) < MaxModelBars
    /\ bars' = Append(bars, HistoryBar(c))
    /\ UNCHANGED <<predictor, window, outcome, mpc, divisors>>
    /\ UNCHANGED <<aggVars, valVars>>
    /\ UNCHANGED concVars
    /\ UNCHANGED appVars

\* One call of a model on bars
CallModel(name, w, res, divs) ==
    /\ mpc = "setup"
    /\ predictor' = name
    /\ window' = w
    /\ outcome' = res
    /\ divisors' = divs
    /\ mpc' = "returned"
    /\ UNCHANGED bars
    /\ UNCHANGED <<aggVars, valVars>>
    /\ UNCHANGED concVars
    /\ UNCHANGED appVars

BuildBars == \E c \in ModelCloses : AppendModelBar(c)

CallLinear ==
    CallModel("Linear", 0, predictLinearWithConfidence(bars), predictLinearDivisors(bars))

CallMovingAverage ==
    \E w \in Windows :
        CallModel("MovingAverage", w, predictMovingAverageWithConfidence(bars, w),
                  predictMovingAverageDivisors(bars, w))

CallHeuristic ==
    CallModel("Heuristic", 0, predictHeuristicWithConfidence(bars),
              predictHeuristicDivisors(bars))

\* One call of one model on one sequence of Bars, and one call of
\* computeCandlesticks on the records loaded (none are loaded here)
NextModels ==
    \/ BuildBars
    \/ CallLinear
    \/ CallMovingAverage
    \/ CallHeuristic
    \/ ComputeTAT
    \/ ComputeWP

SpecModels == Init /\ [][NextModels]_vars

\* validateAllModels(data), either version: one validateModel call per entry of
\* the models vector, each result pushed back
validateAllModels(o) ==
    /\ vpc = "setup"
    /\ o \in ValidateOps
    /\ LET run(i) == validateModel(o, data, ModelsToValidate[i].model,
                                   ModelsToValidate[i].minSize)
       IN  /\ results' = [i \in 1..Len(ModelsToValidate) |-> run(i).result]
           /\ validated' = [i \in 1..Len(ModelsToValidate) |->
                               [model |-> ModelsToValidate[i].model,
                                minTrainingSize |-> ModelsToValidate[i].minSize,
                                predictions |-> run(i).predictions]]
    /\ op' = o
    /\ vpc' = "returned"
    /\ UNCHANGED <<data, modelFunction, minTrainingSize, testIndex, errors, squaredErrors,
                   result, predictions, calls, runs, prevData, prevPredictions>>
    /\ UNCHANGED <<originalData, dataForAnalysis, filtersApplied, wasFiltered, applied, fpc>>
    /\ UNCHANGED aggVars
    /\ UNCHANGED modVars
    /\ UNCHANGED divisors
    /\ UNCHANGED concVars

\* One call of validateAllModels, of either version, on one history
NextValidateAll ==
    \/ \E c \in ModelCloses : AppendBar(MaxAllBars, c)
    \/ validateAllModels("validatePV")
    \/ validateAllModels("validateP")

SpecValidateAll == Init /\ [][NextValidateAll]_vars

----------------------------------------------------------------------------
(* Actions of concurrent calls *)

\* The Bar sequence is built before any call is made
AppendSharedBar(c) ==
    /\ \A t \in Threads : ~requests[t].active
    /\ Len(data) < MaxSharedBars
    /\ data' = Append(data, HistoryBar(c))
    /\ UNCHANGED <<modelFunction, op, minTrainingSize, testIndex, errors, squaredErrors,
                   result, predictions, calls, vpc, runs, prevData, prevPredictions>>
    /\ UNCHANGED <<aggVars, modVars, divisors, concVars>>
    /\ UNCHANGED appVars

\* Caller t calls operation o with the shared sequence
ThreadCall(t, o, mf, m) ==
    /\ ~requests[t].active
    /\ requests' = [requests EXCEPT ![t] =
                        [active |-> TRUE, op |-> o, model |-> mf, m |-> m, given |-> data]]
    /\ frames' = [frames EXCEPT ![FrameOf(t)] = EntryFrame(o, mf, m, data)]
    /\ UNCHANGED <<aggVars, valVars, modVars, divisors>>
    /\ UNCHANGED appVars

\* The call of caller t takes one step
ThreadStep(t) ==
    /\ requests[t].active
    /\ frames[FrameOf(t)].pc = "loop"
    /\ frames' = [frames EXCEPT ![FrameOf(t)] = StepFrame(@, data)]
    /\ UNCHANGED <<aggVars, valVars, modVars, divisors, requests>>
    /\ UNCHANGED appVars

BuildShared == \E c \in Closes : AppendSharedBar(c)

CallPredict ==
    \E t \in Threads, mf \in CoreModels : ThreadCall(t, "predict", mf, 0)

CallValidateModel ==
    \E t \in Threads, mf \in CoreModels, m \in 1..2 : ThreadCall(t, "validatePV", mf, m)

CallGenerateRolling ==
    \E t \in Threads, mf \in CoreModels, m \in 1..2 : ThreadCall(t, "rollP", mf, m)

StepCall == \E t \in Threads : ThreadStep(t)

\* Two callers, each making one call, their steps interleaved in any order
NextConcurrent ==
    \/ BuildShared
    \/ CallPredict
    \/ CallValidateModel
    \/ CallGenerateRolling
    \/ StepCall

SpecConcurrent == Init /\ [][NextConcurrent]_vars

----------------------------------------------------------------------------
(* Actions of the filtering workflow *)

\* The Bar sequence computeCandlesticks produced grows by one Bar: labels
\* ascend, open is the previous close (the own close for the first Bar), and
\* high and low lie around the close
AppendOriginalBar(c, spread) ==
    /\ fpc = "setup"
    /\ Len(originalData) < MaxFilterBars
    /\ LET n == Len(originalData)
           open == IF n = 0 THEN RInt(c) ELSE originalData[n].close
       IN  originalData' = Append(originalData,
                                  Candlestick(Digits4(2020 + n), open, RInt(c),
                                              RInt(c + spread), RInt(c - spread)))
    /\ UNCHANGED <<results, validated, dataForAnalysis, filtersApplied, wasFiltered,
                   applied, fpc>>
    /\ UNCHANGED <<aggVars, valVars, modVars, divisors, concVars>>

\* performSingleAnalysis copies the candlesticks (not empty: loadAndProcessData
\* succeeded) and enters the filtering workflow, which asks whether to filter
StartFiltering ==
    /\ fpc = "setup"
    /\ originalData # <<>>
    /\ dataForAnalysis' = originalData
    /\ fpc' = "asking"
    /\ UNCHANGED <<results, validated, originalData, filtersApplied, wasFiltered, applied>>
    /\ UNCHANGED <<aggVars, valVars, modVars, divisors, concVars>>

\* askForFiltering() answered
AnswerFiltering(yes) ==
    /\ fpc = "asking"
    /\ IF yes
       THEN /\ filtersApplied' = 0
            /\ fpc' = "loop"
            /\ UNCHANGED wasFiltered
       ELSE /\ wasFiltered' = FALSE
            /\ fpc' = "returned"
            /\ UNCHANGED filtersApplied
    /\ UNCHANGED <<results, validated, originalData, dataForAnalysis, applied>>
    /\ UNCHANGED <<aggVars, valVars, modVars, divisors, concVars>>

\* One pass of the loop with filtersApplied = 0: the filter runs on originalData
FirstFilter(criteria) ==
    /\ fpc = "loop"
    /\ filtersApplied = 0
    /\ Len(applied) < MaxFilterRounds
    /\ LET filtered == applyFilter(originalData, criteria)
       IN  /\ dataForAnalysis' = KeptOrReplaced(filtered, dataForAnalysis)
           /\ filtersApplied' = FiltersAppliedAfter(filtered, 2, filtersApplied)
           /\ applied' = Append(applied, filtered)
    /\ UNCHANGED <<results, validated, originalData, wasFiltered, fpc>>
    /\ UNCHANGED <<aggVars, valVars, modVars, divisors, concVars>>

\* One pass of the loop with filtersApplied > 0: the user picks the mode, the
\* filter runs on dataForAnalysis (mode 1) or on originalData (mode 2)
LaterFilter(mode, criteria) ==
    /\ fpc = "loop"
    /\ filtersApplied > 0
    /\ Len(applied) < MaxFilterRounds
    /\ LET sourceData == IF mode = 1 THEN dataForAnalysis ELSE originalData
           filtered == applyFilter(sourceData, criteria)
       IN  /\ dataForAnalysis' = KeptOrReplaced(filtered, dataForAnalysis)
           /\ filtersApplied' = FiltersAppliedAfter(filtered, mode, filtersApplied)
           /\ applied' = Append(applied, filtered)
    /\ UNCHANGED <<results, validated, originalData, wasFiltered, fpc>>
    /\ UNCHANGED <<aggVars, valVars, modVars, divisors, concVars>>

\* askToContinue("apply another filter") answered no: return filtersApplied > 0
FinishFiltering ==
    /\ fpc = "loop"
    /\ applied # <<>>
    /\ wasFiltered' = (filtersApplied > 0)
    /\ fpc' = "returned"
    /\ UNCHANGED <<results, validated, originalData, dataForAnalysis, filtersApplied, applied>>
    /\ UNCHANGED <<aggVars, valVars, modVars, divisors, concVars>>

\* One run of the filtering workflow on one Bar sequence
NextFiltering ==
    \/ \E c \in Closes, spread \in Spreads : AppendOriginalBar(c, spread)
    \/ StartFiltering
    \/ AnswerFiltering(TRUE)
    \/ AnswerFiltering(FALSE)
    \/ \E criteria \in FilterCriteria : FirstFilter(criteria)
    \/ \E criteria \in FilterCriteria : LaterFilter(1, criteria)
    \/ \E criteria \in FilterCriteria : LaterFilter(2, criteria)
    \/ FinishFiltering

SpecFiltering == Init /\ [][NextFiltering]_vars

----------------------------------------------------------------------------
(* Properties of the aggregator *)

Done == pc = "done"

Bars == 1..Len(candlesticks)

\* The group keys of the loaded records under the timeframe of the call
AllKeys == { getGroupKey(records[i].date, timeframe) : i \in 1..Len(records) }

\* The records whose truncated timestamp is key
Members(key) == { i \in 1..Len(records) : getGroupKey(records[i].date, timeframe) = key }

RECURSIVE SumOver(_)
SumOver(S) ==
    IF S = {} THEN 0
    ELSE LET i == CHOOSE x \in S : TRUE
         IN  records[i].temperature + SumOver(S \ {i})

MeanOver(S) == Rat(SumOver(S), Cardinality(S))
MaxOver(S) == CHOOSE t \in { records[i].temperature : i \in S } :
                  \A i \in S : records[i].temperature <= t
MinOver(S) == CHOOSE t \in { records[i].temperature : i \in S } :
                  \A i \in S : t <= records[i].temperature

\* Bar i is the Bar of the period key
IsBarOf(i, key) == candlesticks[i].date = formatDateLabel(key, timeframe)

\* The temperatures of the chronologically first Readings of a period (all of
\* them when several share the earliest timestamp)
FirstReadingTemps(key) ==
    { records[i].temperature :
        i \in { j \in Members(key) :
                  \A l \in Members(key) : ~StrLess(records[l].date, records[j].date) } }

WithinRange(x, bar) == RLe(bar.low, x) /\ RLe(x, bar.high)

\* C1 as stated: every Bar has low <= min(open, close) and max(open, close) <= high.
C1_BarInvariant ==
    Done => \A i \in Bars :
                LET b == candlesticks[i]
                IN  /\ RLe(b.low, RMin(b.open, b.close))
                    /\ RLe(RMax(b.open, b.close), b.high)

\* C1 amended: every Bar has low <= close <= high, and the first Bar (whose open
\* is its own close) also has low <= open <= high; a later Bar's open is the
\* previous period's average and is not bounded by the Bar's low and high.
C1_CloseWithinRange ==
    Done => \A i \in Bars :
                LET b == candlesticks[i]
                IN  /\ WithinRange(b.close, b)
                    /\ (i = 1 => WithinRange(b.open, b))

\* C1 witness: at least two Bars, one of them with low < close < high
C1_Witness ==
    /\ Done
    /\ Len(candlesticks) >= 2
    /\ \E i \in Bars : /\ RLt(candlesticks[i].low, candlesticks[i].close)
                       /\ RLt(candlesticks[i].close, candlesticks[i].high)

\* C2 as stated: every Bar's open is the temperature of the chronologically
\* first Reading of its group.
C2_OpenIsFirstReading ==
    Done => \A i \in Bars : \E k \in AllKeys :
                /\ IsBarOf(i, k)
                /\ \E t \in FirstReadingTemps(k) : candlesticks[i].open = RInt(t)

\* C2 amended: the first Bar's open is the mean of its own group's Readings, and
\* every later Bar's open is the mean of the Readings of the group before it.
C2_OpenIsPreviousMean ==
    Done => \A i \in Bars : \E k \in AllKeys :
                /\ IsBarOf(IF i = 1 THEN 1 ELSE i - 1, k)
                /\ candlesticks[i].open = MeanOver(Members(k))

\* C2 witness: a later Bar whose open is not a first Reading of its own group
C2_Witness ==
    /\ Done
    /\ Len(candlesticks) >= 2
    /\ \E i \in Bars : \E k \in AllKeys :
          /\ i > 1
          /\ IsBarOf(i, k)
          /\ Cardinality(Members(k)) >= 1
          /\ \A t \in FirstReadingTemps(k) : candlesticks[i].open # RInt(t)

\* Every record has a full timestamp and no two records fall in one period
OnePerPeriod ==
    /\ \A i \in 1..Len(records) : Len(records[i].date) >= 10
    /\ \A i, j \in 1..Len(records) :
          i # j => getGroupKey(records[i].date, timeframe)
                     # getGroupKey(records[j].date, timeframe)

\* C3 as stated: with one Reading per period there is one Bar per Reading and
\* every Bar has open = close = high = low = that Reading's temperature.
C3_BarsEqualReadings ==
    (Done /\ OnePerPeriod) =>
        /\ Len(candlesticks) = Len(records)
        /\ \A i \in Bars : \E j \in 1..Len(records) :
              LET b == candlesticks[i]
                  t == RInt(records[j].temperature)
              IN  /\ IsBarOf(i, getGroupKey(records[j].date, timeframe))
                  /\ b.open = t /\ b.close = t /\ b.high = t /\ b.low = t

\* C3 amended: with one Reading per period there is one Bar per Reading, every
\* Bar has close = high = low = that Reading's temperature, the first Bar has
\* open = close, and every later Bar's open is the temperature of the Reading
\* of the period before it.
C3_BarsEqualReadingsButOpen ==
    (Done /\ OnePerPeriod) =>
        /\ Len(candlesticks) = Len(records)
        /\ \A i \in Bars : \E j \in 1..Len(records) :
              LET b == candlesticks[i]
                  t == RInt(records[j].temperature)
              IN  /\ IsBarOf(i, getGroupKey(records[j].date, timeframe))
                  /\ b.close = t /\ b.high = t /\ b.low = t
                  /\ b.open = IF i = 1 THEN t ELSE candlesticks[i - 1].close

\* C3 witness: one Reading per period, and the second Bar has open # close
C3_Witness ==
    /\ Done
    /\ OnePerPeriod
    /\ Len(records) >= 2
    /\ candlesticks[2].open # candlesticks[2].close

\* C4: for any input order there is exactly one Bar per period key of the
\* records with a full timestamp, every Bar is the Bar of some record's key, and
\* the Bars are in strictly ascending order of period.
C4_OneBarPerKeyAscending ==
    Done =>
        /\ \A i \in Bars : i > 1 => StrLess(candlesticks[i - 1].date, candlesticks[i].date)
        /\ \A j \in 1..Len(records) :
              Len(records[j].date) >= 10 =>
                  Cardinality({ i \in Bars :
                      IsBarOf(i, getGroupKey(records[j].date, timeframe)) }) = 1
        /\ \A i \in Bars : \E k \in AllKeys : IsBarOf(i, k)

\* C4 witness: records loaded out of date order give at least two Bars
C4_Witness ==
    /\ Done
    /\ Len(candlesticks) >= 2
    /\ \E i, j \in 1..Len(records) : i < j /\ StrLess(records[j].date, records[i].date)

\* The records with a timestamp of at least YYYY-MM-DD, in their input order
ValidOnly == SelectSeq(records, LAMBDA r : Len(r.date) >= 10)

\* C5 as stated: the output equals the output on the same input with the
\* Readings of invalid or short timestamp removed.
C5_InvalidExcluded ==
    Done => \E sorted \in SortOutcomes(ValidOnly) :
                candlesticks = BuildCandlesticks(impl, sorted, timeframe)

\* C6: every Bar belongs to a period key, and its close is the mean, its high
\* the maximum and its low the minimum of the temperatures of exactly the
\* records whose truncated timestamp is that key; so low <= close <= high.
C6_CloseHighLow ==
    Done => \A i \in Bars : \E k \in AllKeys :
                LET b == candlesticks[i]
                IN  /\ IsBarOf(i, k)
                    /\ b.close = MeanOver(Members(k))
                    /\ b.high = RInt(MaxOver(Members(k)))
                    /\ b.low = RInt(MinOver(Members(k)))
                    /\ RLe(b.low, b.close) /\ RLe(b.close, b.high)

\* C6 witness: a Bar of several records with different temperatures, input not ascending
C6_Witness ==
    /\ Done
    /\ \E i \in Bars : \E k \in AllKeys :
          /\ IsBarOf(i, k)
          /\ Cardinality(Members(k)) >= 2
          /\ candlesticks[i].low # candlesticks[i].high
          /\ records[1].temperature > records[Len(records)].temperature

----------------------------------------------------------------------------
(* Properties of the validator and the rolling predictor *)

Validating == op \in ValidateOps /\ vpc \in {"loop", "returned", "threw"}

\* Invocation k of a run was for testIndex minTrainingSize + k - 1
TestIndexOf(k) == minTrainingSize + k - 1

IsValidOutcome(out) == ~out.throws /\ out.res.isValid

\* The absolute errors of the valid predictions among the first k invocations,
\* each against the close of the Bar at its testIndex
RECURSIVE ErrorsAgainstTested(_)
ErrorsAgainstTested(k) ==
    IF k = 0 THEN <<>>
    ELSE ErrorsAgainstTested(k - 1) \o
         ( IF IsValidOutcome(predictions[k])
           THEN <<RAbs(RSub(predictions[k].res.predictionValue,
                            data[TestIndexOf(k) + 1].close))>>
           ELSE <<>> )

\* C7: with n >= m + 1, invocation k of validateModel is for testIndex m + k - 1
\* and gets exactly the Bars before that index; every valid prediction is
\* compared with the close of the Bar at its testIndex; and validateModel
\* returns after n - m invocations with totalAttempts = n - m.
C7_ForwardChaining ==
    (Validating /\ Len(data) >= minTrainingSize + 1) =>
        /\ \A k \in 1..Len(calls) :
              /\ TestIndexOf(k) < Len(data)
              /\ calls[k] = SubSeq(data, 1, TestIndexOf(k))
        /\ Len(predictions) = Len(calls)
        /\ errors = ErrorsAgainstTested(Len(predictions))
        /\ vpc = "returned" =>
              /\ Len(calls) = Len(data) - minTrainingSize
              /\ result.totalAttempts = Len(data) - minTrainingSize

\* C7 witness: n = 5, m = 2: three attempts, on the prefixes of length 2, 3 and 4
C7_Witness ==
    /\ op \in ValidateOps
    /\ vpc = "returned"
    /\ Len(data) = 5
    /\ minTrainingSize = 2
    /\ result.totalAttempts = 3
    /\ calls = <<SubSeq(data, 1, 2), SubSeq(data, 1, 3), SubSeq(data, 1, 4)>>
    /\ result.validPredictions = 3

\* C8: when the same operation is run on two histories, the predictions for
\* index i are the same whenever the two histories agree on the Bars before i.
C8_NoLookahead ==
    (runs = 2 /\ vpc \in {"loop", "returned", "threw"}) =>
        \A k \in 1..Len(predictions) :
            ( /\ k <= Len(prevPredictions)
              /\ TestIndexOf(k) <= Len(prevData)
              /\ SubSeq(data, 1, TestIndexOf(k)) = SubSeq(prevData, 1, TestIndexOf(k)) )
            => predictions[k] = prevPredictions[k]

\* C8 witness: two finished runs whose histories agree before index i and differ at i
C8_Witness ==
    /\ runs = 2
    /\ vpc = "returned"
    /\ \E k \in 1..Len(predictions) :
          /\ k <= Len(prevPredictions)
          /\ TestIndexOf(k) >= 1
          /\ TestIndexOf(k) < Len(prevData)
          /\ SubSeq(data, 1, TestIndexOf(k)) = SubSeq(prevData, 1, TestIndexOf(k))
          /\ data[TestIndexOf(k) + 1] # prevData[TestIndexOf(k) + 1]
          /\ IsValidOutcome(predictions[k])

NumValid == Cardinality({ k \in 1..Len(predictions) : IsValidOutcome(predictions[k]) })

\* C9 as stated: an invocation that throws or returns an invalid result adds
\* nothing to the error vectors or to validPredictions, is counted in
\* totalAttempts, and validation goes on: validateModel is never left by the
\* exception.
C9_FailedInvocationSkipped ==
    Validating =>
        /\ vpc # "threw"
        /\ result.totalAttempts = Len(predictions)
        /\ result.validPredictions = NumValid
        /\ Len(errors) = NumValid
        /\ Len(squaredErrors) = NumValid

\* C10: validateModel returns isValid = false exactly when n < m + 1 or no
\* invocation gave a valid prediction. In the first case no invocation was made,
\* totalAttempts is 0 and the message names m + 1 points; in the second the
\* message says that no valid predictions were generated.
C10_InvalidExactlyTwoCases ==
    (op \in ValidateOps /\ vpc = "returned") =>
        LET n == Len(data)
            m == minTrainingSize
            short == n < m + 1
            noneValid == \A k \in 1..Len(predictions) : ~IsValidOutcome(predictions[k])
        IN  /\ ~result.isValid <=> (short \/ noneValid)
            /\ short =>
                  /\ calls = <<>>
                  /\ result.totalAttempts = 0
                  /\ result.errorMessage =
                        <<"Insufficient data for validation (need at least ", m + 1, " points)">>
            /\ (~short /\ noneValid) =>
                  result.errorMessage = <<"No valid predictions generated during validation">>

\* C10 witness: enough data, several invocations, none valid
C10_Witness ==
    /\ op \in ValidateOps
    /\ vpc = "returned"
    /\ ~result.isValid
    /\ Len(data) >= minTrainingSize + 1
    /\ result.totalAttempts >= 2

\* The invocations of the run that gave a valid prediction
ValidInvocations == { k \in 1..Len(predictions) : IsValidOutcome(predictions[k]) }

\* prediction - actual close for invocation k
ErrorOf(k) == RSub(predictions[k].res.predictionValue, data[TestIndexOf(k) + 1].close)

RECURSIVE SumAbsErrors(_)
SumAbsErrors(S) ==
    IF S = {} THEN RInt(0)
    ELSE LET k == CHOOSE x \in S : TRUE
         IN  RAdd(RAbs(ErrorOf(k)), SumAbsErrors(S \ {k}))

RECURSIVE SumSquaredErrors(_)
SumSquaredErrors(S) ==
    IF S = {} THEN RInt(0)
    ELSE LET k == CHOOSE x \in S : TRUE
         IN  RAdd(RMul(ErrorOf(k), ErrorOf(k)), SumSquaredErrors(S \ {k}))

\* C11: when validateModel returns and at least one prediction was valid, the
\* result is valid, meanAbsoluteError is the mean of |prediction - actual close|
\* and meanSquaredError the mean of (prediction - actual close)^2 over exactly
\* the valid predictions, and maxError / minError are the largest / smallest of
\* those absolute errors.
C11_ErrorMetrics ==
    (op \in ValidateOps /\ vpc = "returned" /\ ValidInvocations # {}) =>
        LET V == ValidInvocations
            count == RInt(Cardinality(V))
        IN  /\ result.isValid
            /\ result.validPredictions = Cardinality(V)
            /\ result.meanAbsoluteError = RDiv(SumAbsErrors(V), count)
            /\ result.meanSquaredError = RDiv(SumSquaredErrors(V), count)
            /\ \E k \in V : result.maxError = RAbs(ErrorOf(k))
            /\ \A k \in V : RLe(RAbs(ErrorOf(k)), result.maxError)
            /\ \E k \in V : result.minError = RAbs(ErrorOf(k))
            /\ \A k \in V : RLe(result.minError, RAbs(ErrorOf(k)))

\* C11 witness: a run with valid and invalid predictions whose absolute errors
\* differ, the largest not being the first
C11_Witness ==
    /\ op \in ValidateOps
    /\ vpc = "returned"
    /\ result.isValid
    /\ result.validPredictions >= 2
    /\ result.validPredictions < result.totalAttempts
    /\ RLt(result.minError, result.maxError)
    /\ RLt(errors[1], result.maxError)

Rolling == op \in RollOps

\* C12: for 0 <= startIndex <= n, generateRollingPredictions returns exactly
\* n - startIndex results; result k (counted from 0) is the model's output on
\* the Bars before index startIndex + k, so the results are in ascending index
\* order and an invalid result stays at its place.
C12_RollingPredictions ==
    (Rolling /\ vpc = "returned" /\ minTrainingSize <= Len(data)) =>
        /\ Len(predictions) = Len(data) - minTrainingSize
        /\ \A k \in 1..Len(predictions) :
              /\ ~predictions[k].throws
              /\ predictions[k] = Invoke(modelFunction, SubSeq(data, 1, TestIndexOf(k)))

\* C12 witness: a returned run of at least three results with an invalid result
\* before a valid one
C12_Witness ==
    /\ Rolling
    /\ vpc = "returned"
    /\ minTrainingSize >= 1
    /\ Len(predictions) >= 3
    /\ \E j, k \in 1..Len(predictions) :
          /\ j < k
          /\ ~predictions[j].res.isValid
          /\ predictions[k].res.isValid

----------------------------------------------------------------------------
(* Properties of the prediction models *)

Returned(name) == mpc = "returned" /\ predictor = name

Close(i) == bars[i].close

\* C13 as stated: on exactly 2 Bars with closes [a, b] the Linear model returns
\* a valid result with value b + (b - a) and confidence 1.
C13_TwoPointFit ==
    (Returned("Linear") /\ Len(bars) = 2) =>
        /\ outcome.isValid
        /\ outcome.predictionValue = RAdd(Close(2), RSub(Close(2), Close(1)))
        /\ outcome.confidenceMetric = RInt(1)

\* C13 amended: on exactly 2 Bars with closes [a, b] the Linear model returns a
\* valid result with value b + (b - a); its confidence is 1 when a # b and 0
\* when a = b (the total sum of squares is then zero and R^2 is reported as 0).
C13_TwoPointFitUnlessEqual ==
    (Returned("Linear") /\ Len(bars) = 2) =>
        /\ outcome.isValid
        /\ outcome.predictionValue = RAdd(Close(2), RSub(Close(2), Close(1)))
        /\ outcome.confidenceMetric = IF Close(1) = Close(2) THEN RInt(0) ELSE RInt(1)

\* C13 witness: closes [10, 12] give 14 with confidence 1
C13_Witness ==
    /\ Returned("Linear")
    /\ Len(bars) = 2
    /\ Close(1) = RInt(10) /\ Close(2) = RInt(12)
    /\ outcome.predictionValue = RInt(14)
    /\ outcome.confidenceMetric = RInt(1)

\* C14: computeCandlesticks on no records returns no Bars; each of the three
\* models called on no Bars returns an invalid result with a reason; and the
\* Linear model called on one Bar returns an invalid result whose reason is
\* insufficient data. None of these calls is left by an exception.
C14_StructuredOutcome ==
    /\ (Done /\ records = <<>>) => candlesticks = <<>>
    /\ (mpc = "returned" /\ bars = <<>>) =>
          /\ ~outcome.isValid
          /\ outcome.errorMessage # ""
          /\ outcome.predictionValue = RInt(0)
    /\ (Returned("Linear") /\ Len(bars) = 1) =>
          /\ ~outcome.isValid
          /\ outcome.errorMessage = "Insufficient data (need at least 2 points)"

\* C14 witness: computeCandlesticks returned on no records and the Linear model
\* returned on a single Bar
C14_Witness ==
    /\ Done
    /\ records = <<>>
    /\ candlesticks = <<>>
    /\ Returned("Linear")
    /\ Len(bars) = 1
    /\ ~outcome.isValid

RECURSIVE SumClosesAt(_)
SumClosesAt(S) ==
    IF S = {} THEN RInt(0)
    ELSE LET i == CHOOSE x \in S : TRUE
         IN  RAdd(Close(i), SumClosesAt(S \ {i}))

\* The arithmetic mean of the last k closes of bars
MeanOfLast(k) == RDiv(SumClosesAt((Len(bars) - k + 1)..Len(bars)), RInt(k))

\* C15: on a non-empty history of n Bars and with window >= 1 the MovingAverage
\* model returns a valid result whose value is the mean of the last
\* min(window, n) closes.
C15_MovingAverageValue ==
    (Returned("MovingAverage") /\ bars # <<>> /\ window >= 1) =>
        /\ outcome.isValid
        /\ outcome.predictionValue = MeanOfLast(Min2(window, Len(bars)))

\* C15 witness: window 3 over closes [10, 12, 14] gives 12
C15_Witness ==
    /\ Returned("MovingAverage")
    /\ window = 3
    /\ Len(bars) = 3
    /\ Close(1) = RInt(10) /\ Close(2) = RInt(12) /\ Close(3) = RInt(14)
    /\ outcome.predictionValue = RInt(12)

\* C15 second case: a window longer than the history is cut to the history
C15_ClampWitness ==
    /\ Returned("MovingAverage")
    /\ window > Len(bars)
    /\ Len(bars) >= 2
    /\ Close(1) # Close(2)
    /\ outcome.isValid

\* C16 as stated: called with window <= 0 the MovingAverage model returns an
\* invalid result with a reason.
C16_NonPositiveWindowRejected ==
    (Returned("MovingAverage") /\ window <= 0) =>
        /\ ~outcome.isValid
        /\ outcome.errorMessage # ""

\* C16 amended: called with window <= 0 on a non-empty history the MovingAverage
\* model takes window 3 instead and returns a valid result, the mean of the last
\* min(3, n) closes; only on an empty history is the result invalid.
C16_NonPositiveWindowDefaulted ==
    (Returned("MovingAverage") /\ window <= 0) =>
        IF bars = <<>>
        THEN ~outcome.isValid /\ outcome.errorMessage = "No data available"
        ELSE /\ outcome.isValid
             /\ outcome.predictionValue = MeanOfLast(Min2(3, Len(bars)))
             /\ outcome = predictMovingAverageWithConfidence(bars, 3)

\* C16 witness: window <= 0 on four Bars whose last three have another mean
\* than the last one and than all four
C16_Witness ==
    /\ Returned("MovingAverage")
    /\ window <= 0
    /\ Len(bars) = 4
    /\ outcome.isValid
    /\ outcome.predictionValue # MeanOfLast(1)
    /\ outcome.predictionValue # MeanOfLast(4)

\* C17: on a history of n >= 2 Bars the Heuristic model returns a valid result
\* with value last + (last - secondLast); on a single Bar it returns a valid
\* result whose value is that Bar's close and whose confidence is 0.
C17_HeuristicValue ==
    Returned("Heuristic") =>
        LET n == Len(bars)
        IN  /\ n >= 2 =>
                  /\ outcome.isValid
                  /\ outcome.predictionValue =
                         RAdd(Close(n), RSub(Close(n), Close(n - 1)))
            /\ n = 1 =>
                  /\ outcome.isValid
                  /\ outcome.errorMessage = ""
                  /\ outcome.predictionValue = Close(1)
                  /\ outcome.confidenceMetric = RInt(0)

\* C17 witness: closes [10, 12] give 14
C17_Witness ==
    /\ Returned("Heuristic")
    /\ Len(bars) = 2
    /\ Close(1) = RInt(10) /\ Close(2) = RInt(12)
    /\ outcome.isValid
    /\ outcome.predictionValue = RInt(14)

\* C17 second case: a single Bar gives its own close
C17_SingleBarWitness ==
    /\ Returned("Heuristic")
    /\ Len(bars) = 1
    /\ outcome.isValid
    /\ outcome.predictionValue = RInt(12)

InUnitInterval(x) == RLe(RInt(0), x) /\ RLe(x, RInt(1))

\* C18: whatever the Bars (none, one, constant, negative or zero-mean closes)
\* and whatever the window, the confidence of the result of the Linear,
\* MovingAverage and Heuristic models lies in [0, 1], valid or not.
C18_ConfidenceInUnitInterval ==
    mpc = "returned" => InUnitInterval(outcome.confidenceMetric)

\* C18 witness: a MovingAverage window of non-positive mean, and a confidence
\* strictly between 0 and 1
C18_Witness ==
    /\ Returned("MovingAverage")
    /\ outcome.isValid
    /\ RLe(outcome.predictionValue, RInt(0))
    /\ RLt(RInt(0), outcome.confidenceMetric)
    /\ RLt(outcome.confidenceMetric, RInt(1))

\* C18, further cases: each model reaches a confidence strictly inside (0, 1)
C18_LinearWitness ==
    /\ Returned("Linear")
    /\ RLt(RInt(0), outcome.confidenceMetric)
    /\ RLt(outcome.confidenceMetric, RInt(1))

C18_HeuristicWitness ==
    /\ Returned("Heuristic")
    /\ RLt(RInt(0), outcome.confidenceMetric)
    /\ RLt(outcome.confidenceMetric, RInt(1))

\* C19: no division made by a model, by validateModel or by
\* generateRollingPredictions has a zero divisor, whatever the Bars and the
\* window: the regression denominator, the total sum of squares, the window
\* mean, the lengths under a mean and a standard deviation are divided by only
\* where the guards let them through.
C19_NoDivisionByZero ==
    \A i \in 1..Len(divisors) : divisors[i][1] # 0 /\ divisors[i][2] # 0

\* C19 witness: the Linear model on constant closes, whose total sum of squares
\* is zero, has divided by the denominator and by n only
C19_Witness ==
    /\ Returned("Linear")
    /\ Len(bars) >= 2
    /\ TotalSumSquares(bars) = RInt(0)
    /\ Len(divisors) = 3

\* C19, further cases: a MovingAverage window of zero mean and of negative mean
C19_ZeroMeanWitness ==
    /\ Returned("MovingAverage")
    /\ window = 2
    /\ Len(bars) >= 2
    /\ outcome.predictionValue = RInt(0)
    /\ Len(divisors) = 4

C19_NegativeMeanWitness ==
    /\ Returned("MovingAverage")
    /\ RLt(outcome.predictionValue, RInt(0))
    /\ RLt(RInt(0), outcome.confidenceMetric)
    /\ Len(divisors) = 4

\* C19, further case: validateModel has divided by the number of valid predictions
C19_ValidatorWitness ==
    /\ op \in ValidateOps
    /\ vpc = "returned"
    /\ result.isValid
    /\ modelFunction = "Linear"
    /\ Len(divisors) >= 6

----------------------------------------------------------------------------
(* Properties of concurrent calls *)

\* What the call of caller t returns when it runs alone on the sequence it was given
AloneResult(t) ==
    LET r == requests[t]
    IN  RunAlone(EntryFrame(r.op, r.model, r.m, r.given), r.given)

\* C20: however the steps of concurrent calls are interleaved, every call is
\* on the way to, and returns, the result it has when run alone, and the shared
\* Bar sequence stays as it was given.
C20_NoSharedMutableState ==
    \A t \in Threads :
        requests[t].active =>
            /\ data = requests[t].given
            /\ RunAlone(frames[FrameOf(t)], data) = AloneResult(t)
            /\ frames[FrameOf(t)].pc = "returned" => frames[FrameOf(t)] = AloneResult(t)

\* C20 witness: two different operations were under way at once, and both have
\* returned, with several results each
C20_Witness ==
    /\ \A t \in Threads : requests[t].active /\ frames[t].pc = "returned"
    /\ requests[1].op = "validatePV" /\ requests[2].op = "rollP"
    /\ requests[1].model # requests[2].model
    /\ frames[1].result.isValid
    /\ Len(frames[1].predictions) >= 2
    /\ Len(frames[2].predictions) >= 2

\* C20, the interleaving itself: both calls are in their loops, each part done
C20_InterleavedWitness ==
    /\ \A t \in Threads : requests[t].active /\ frames[t].pc = "loop"
    /\ Len(frames[1].predictions) = 1
    /\ Len(frames[2].predictions) = 1

\* The window the MovingAverage model works on: min(windowSize, n), a
\* non-positive windowSize counting as 3
EffectiveWindow == Min2(DefaultedWindow(window), Len(bars))

\* C21 as stated: when the effective window holds a single value the
\* MovingAverage confidence is the stability formula at standard deviation 0,
\* that is 1.
C21_SingleValueConfidenceOne ==
    (Returned("MovingAverage") /\ bars # <<>> /\ EffectiveWindow = 1) =>
        outcome.confidenceMetric = RInt(1)

\* C21 amended: when the effective window holds a single value (one Bar, or
\* window 1) the MovingAverage result is valid, its value is the last close and
\* its confidence is the constant 0 of the early return, not the formula's 1.
C21_SingleValueConfidenceZero ==
    (Returned("MovingAverage") /\ bars # <<>> /\ EffectiveWindow = 1) =>
        /\ outcome.isValid
        /\ outcome.predictionValue = Close(Len(bars))
        /\ outcome.confidenceMetric = RInt(0)

\* C21 witness: window 1 on several Bars, confidence 0
C21_Witness ==
    /\ Returned("MovingAverage")
    /\ window = 1
    /\ Len(bars) >= 2
    /\ outcome.isValid
    /\ outcome.confidenceMetric = RInt(0)

\* C21, second case: a single Bar under a longer window
C21_SingleBarWitness ==
    /\ Returned("MovingAverage")
    /\ window = 3
    /\ Len(bars) = 1
    /\ outcome.confidenceMetric = RInt(0)

\* The closes of the effective window, their mean and standard deviation
WindowValues == RecentValues(bars, EffectiveWindow)
WindowMean == calculateMean(WindowValues)
WindowStdDev == calculateStandardDeviation(WindowValues, WindowMean)

\* 1 / (1 + relativeVolatility * 5)
StabilityOf(relativeVolatility) ==
    RDiv(RInt(1), RAdd(RInt(1), RMul(relativeVolatility, RInt(5))))

\* C22 as stated: on a window of at least two values the MovingAverage
\* confidence is computed from relativeVolatility = stdDev / |mean| whenever the
\* window mean is not zero, negative means included, and from stdDev itself
\* only when the mean is zero.
C22_RelativeVolatilityByAbsMean ==
    (Returned("MovingAverage") /\ Len(bars) >= 2 /\ EffectiveWindow >= 2) =>
        outcome.confidenceMetric =
            IF WindowMean # RInt(0)
            THEN StabilityOf(RDiv(WindowStdDev, RAbs(WindowMean)))
            ELSE StabilityOf(WindowStdDev)

\* What the code does instead: stdDev / |mean| for a positive mean, stdDev
\* itself for a zero or negative mean
C22_AsCoded ==
    (Returned("MovingAverage") /\ Len(bars) >= 2 /\ EffectiveWindow >= 2) =>
        outcome.confidenceMetric =
            IF RLt(RInt(0), WindowMean)
            THEN StabilityOf(RDiv(WindowStdDev, RAbs(WindowMean)))
            ELSE StabilityOf(WindowStdDev)

\* The successive close differences of bars, computed over the index set
Delta(i) == RSub(Close(i + 1), Close(i))

RECURSIVE SumDelta(_)
SumDelta(S) ==
    IF S = {} THEN RInt(0)
    ELSE LET i == CHOOSE x \in S : TRUE
         IN  RAdd(Delta(i), SumDelta(S \ {i}))

DeltaIndices == 1..(Len(bars) - 1)
MeanDelta == RDiv(SumDelta(DeltaIndices), RInt(Len(bars) - 1))

RECURSIVE SumSquaredDeviation(_)
SumSquaredDeviation(S) ==
    IF S = {} THEN RInt(0)
    ELSE LET i == CHOOSE x \in S : TRUE
             dev == RSub(Delta(i), MeanDelta)
         IN  RAdd(RMul(dev, dev), SumSquaredDeviation(S \ {i}))

\* Sample standard deviation of the differences
StdDevDelta == Sqrt(RDiv(SumSquaredDeviation(DeltaIndices), RInt(Len(bars) - 2)))

\* C23: the Heuristic confidence is 0 on fewer than 3 Bars; on 3 or more it is
\* 1 / (1 + stdDev(D) / (|mean(D)| + 1)) over all successive close differences
\* D, and so exactly 1 when the differences are all equal.
C23_ConsistencyConfidence ==
    Returned("Heuristic") =>
        LET n == Len(bars)
        IN  /\ n < 3 => outcome.confidenceMetric = RInt(0)
            /\ n >= 3 =>
                  /\ outcome.confidenceMetric =
                         RDiv(RInt(1),
                              RAdd(RInt(1),
                                   RDiv(StdDevDelta, RAdd(RAbs(MeanDelta), RInt(1)))))
                  /\ (\A i, j \in DeltaIndices : Delta(i) = Delta(j)) =>
                         outcome.confidenceMetric = RInt(1)

\* C23 witness: closes 10, 12, 14, whose differences are both 2: confidence 1
C23_Witness ==
    /\ Returned("Heuristic")
    /\ Len(bars) = 3
    /\ Close(1) = RInt(10) /\ Close(2) = RInt(12) /\ Close(3) = RInt(14)
    /\ outcome.confidenceMetric = RInt(1)

\* C23, further cases: unequal differences over four Bars, and two Bars
C23_UnequalWitness ==
    /\ Returned("Heuristic")
    /\ Len(bars) = 4
    /\ Delta(1) # Delta(2) /\ Delta(2) = Delta(3)
    /\ RLt(outcome.confidenceMetric, RInt(1))

C23_TwoBarsWitness ==
    /\ Returned("Heuristic")
    /\ Len(bars) = 2
    /\ Close(1) # Close(2)
    /\ outcome.isValid
    /\ outcome.confidenceMetric = RInt(0)

\* C24: on n >= 2 Bars the denominator n * sum(x^2) - (sum x)^2 of the Linear
\* model is n^2 (n^2 - 1) / 12, at least 1, so the test against the threshold
\* fails and the result comes from the regression: the model has divided by
\* the denominator, which the fallback branch never does.
C24_DenominatorPositive ==
    (Returned("Linear") /\ Len(bars) >= 2) =>
        LET n == Len(bars)
            denominator == LinearDenominator(bars)
        IN  /\ denominator = Rat(n * n * (n * n - 1), 12)
            /\ RLe(RInt(1), denominator)
            /\ ~BelowEpsilon(RAbs(denominator))
            /\ Len(divisors) >= 3
            /\ divisors[1] = denominator

\* C24 witness: four Bars, denominator 20, and a prediction that is not the
\* mean of the closes
C24_Witness ==
    /\ Returned("Linear")
    /\ Len(bars) = 4
    /\ LinearDenominator(bars) = RInt(20)
    /\ outcome.isValid
    /\ outcome.predictionValue # MeanOfLast(4)

----------------------------------------------------------------------------
(* Further properties of the aggregator *)

\* C25: in the Bars computeCandlesticks returns, the first Bar has open = close
\* and every later Bar's open is the close of the Bar just before it.
C25_OpenIsPreviousClose ==
    Done => \A i \in Bars :
                candlesticks[i].open =
                    IF i = 1 THEN candlesticks[1].close ELSE candlesticks[i - 1].close

\* C25 witness: three Bars with different closes, each later open taken from
\* the Bar before
C25_Witness ==
    /\ Done
    /\ Len(candlesticks) = 3
    /\ candlesticks[1].close # candlesticks[2].close
    /\ candlesticks[2].close # candlesticks[3].close
    /\ candlesticks[2].open = candlesticks[1].close
    /\ candlesticks[3].open = candlesticks[2].close

----------------------------------------------------------------------------
(* Validator and rolling predictions on the same history *)

\* generateRollingPredictions has returned after validateModel, same arguments
RolledAfterValidation == op \in RollOps /\ runs = 2 /\ vpc = "returned"

ValidEntries == { k \in 1..Len(predictions) : predictions[k].res.isValid }

\* C26: when validateModel(history, model, k) and then
\* generateRollingPredictions(history, model, k) have both returned, the rolling
\* sequence holds the results of the validator's invocations: totalAttempts is
\* its length, validPredictions the number of its valid entries, and, when there
\* is a valid entry, meanAbsoluteError and maxError are the mean and the maximum
\* of the errors that displayAccuracyAnalysis recomputes from it.
C26_ValidatorAgreesWithRolling ==
    RolledAfterValidation =>
        LET accuracyErrors == AccuracyErrors(data, predictions, minTrainingSize, Len(data))
        IN  /\ predictions = prevPredictions
            /\ result.totalAttempts = Len(predictions)
            /\ result.validPredictions = Cardinality(ValidEntries)
            /\ Len(accuracyErrors) = result.validPredictions
            /\ result.isValid <=> accuracyErrors # <<>>
            /\ accuracyErrors # <<>> =>
                  /\ result.meanAbsoluteError = calculateMean(accuracyErrors)
                  /\ result.maxError = MaxElement(accuracyErrors)

\* C26 witness: PredictionChart's rolling predictions after a validation with
\* valid and invalid entries and unequal errors
C26_Witness ==
    /\ RolledAfterValidation
    /\ op = "rollPC"
    /\ minTrainingSize >= 1
    /\ result.isValid
    /\ result.validPredictions >= 2
    /\ result.validPredictions < Len(predictions)
    /\ RLt(result.minError, result.maxError)

\* C26 witness: the same with the lambdas of validateAllModels
C26_LinearWitness ==
    /\ RolledAfterValidation
    /\ modelFunction = "Linear"
    /\ minTrainingSize = 2
    /\ Len(predictions) = 3
    /\ RLt(RInt(0), result.meanAbsoluteError)
    /\ RLt(result.meanAbsoluteError, result.maxError)

----------------------------------------------------------------------------
(* Invariants of the ValidationResult *)

ValidatorReturned == op \in ValidateOps /\ vpc = "returned"

\* C27: every ValidationResult returned by validateModel has
\* 0 <= validPredictions <= totalAttempts; a valid one has validPredictions >= 1,
\* 0 <= minError <= meanAbsoluteError <= maxError, meanSquaredError >= 0 and
\* meanAbsoluteError^2 <= meanSquaredError <= maxError^2; an invalid one has
\* all four error fields 0.
C27_ResultInvariants ==
    ValidatorReturned =>
        LET mae == result.meanAbsoluteError
            mse == result.meanSquaredError
        IN  /\ 0 <= result.validPredictions
            /\ result.validPredictions <= result.totalAttempts
            /\ result.isValid =>
                  /\ result.validPredictions >= 1
                  /\ RLe(RInt(0), result.minError)
                  /\ RLe(result.minError, mae)
                  /\ RLe(mae, result.maxError)
                  /\ RLe(RInt(0), mse)
                  /\ RLe(RMul(mae, mae), mse)
                  /\ RLe(mse, RMul(result.maxError, result.maxError))
            /\ ~result.isValid =>
                  /\ mae = RInt(0)
                  /\ mse = RInt(0)
                  /\ result.maxError = RInt(0)
                  /\ result.minError = RInt(0)

\* C27 witness: a valid result with some failed attempts and every inequality strict
C27_Witness ==
    /\ ValidatorReturned
    /\ result.isValid
    /\ result.validPredictions < result.totalAttempts
    /\ RLt(RInt(0), result.minError)
    /\ RLt(result.minError, result.meanAbsoluteError)
    /\ RLt(result.meanAbsoluteError, result.maxError)
    /\ RLt(RMul(result.meanAbsoluteError, result.meanAbsoluteError), result.meanSquaredError)
    /\ RLt(result.meanSquaredError, RMul(result.maxError, result.maxError))

\* C27 witness: an invalid result after several attempts
C27_InvalidWitness ==
    /\ ValidatorReturned
    /\ ~result.isValid
    /\ result.totalAttempts >= 2
    /\ result.validPredictions = 0

----------------------------------------------------------------------------
(* validateAllModels with the default minimum sizes *)

ValidatedAll == results # <<>>

\* The model function validateAllModels passes for each name
DefaultModel(name, d) ==
    CASE name = "Linear"        -> predictLinearWithConfidence(d)
      [] name = "MovingAverage" -> predictMovingAverageWithConfidence(d, 3)
      [] name = "Heuristic"     -> predictHeuristicWithConfidence(d)

\* C28: validateAllModels returns three results, for the linear model with
\* minTrainingSize 2, the 3-period moving average with 1 and the heuristic with
\* 2, in that order; every prediction attempted is valid; and each valid result
\* has validPredictions = totalAttempts = n - minTrainingSize.
C28_ValidateAllModels ==
    ValidatedAll =>
        /\ Len(results) = 3
        /\ Len(validated) = 3
        /\ [i \in 1..3 |-> validated[i].model] = <<"Linear", "MovingAverage", "Heuristic">>
        /\ [i \in 1..3 |-> validated[i].minTrainingSize] = <<2, 1, 2>>
        /\ \A i \in 1..3 :
              LET v == validated[i]
                  m == v.minTrainingSize
              IN  /\ results[i].totalAttempts = Len(v.predictions)
                  /\ \A k \in 1..Len(v.predictions) :
                        /\ ~v.predictions[k].throws
                        /\ v.predictions[k].res.isValid
                        /\ v.predictions[k].res =
                              DefaultModel(v.model, SubSeq(data, 1, m + k - 1))
                  /\ results[i].isValid =>
                        /\ results[i].validPredictions = results[i].totalAttempts
                        /\ results[i].totalAttempts = Len(data) - m

\* C28 witness: four Bars, three valid results with 2, 3 and 2 attempts
C28_Witness ==
    /\ ValidatedAll
    /\ Len(data) = 4
    /\ \A i \in 1..3 : results[i].isValid
    /\ [i \in 1..3 |-> results[i].totalAttempts] = <<2, 3, 2>>
    /\ RLt(RInt(0), results[1].meanAbsoluteError)

\* C28 witness: two Bars, where only the moving average has an attempt
C28_ShortWitness ==
    /\ ValidatedAll
    /\ Len(data) = 2
    /\ ~results[1].isValid
    /\ results[2].isValid
    /\ results[2].totalAttempts = 1
    /\ ~results[3].isValid

----------------------------------------------------------------------------
(* The filtering workflow *)

\* s can be obtained from t by deleting elements
RECURSIVE IsSubsequence(_, _)
IsSubsequence(s, t) ==
    IF s = <<>> THEN TRUE
    ELSE IF t = <<>> THEN FALSE
    ELSE IF Head(s) = Head(t) THEN IsSubsequence(Tail(s), Tail(t))
    ELSE IsSubsequence(s, Tail(t))

\* The workflow has been entered with the copy of the original Bars
InWorkflow == fpc \in {"asking", "loop", "returned"}

\* A step in which applyFilter returned an empty vector
EmptyFilterStep ==
    /\ Len(applied') = Len(applied) + 1
    /\ applied'[Len(applied')] = <<>>

\* C29: in the filtering workflow dataForAnalysis is always a non-empty
\* subsequence of originalData, in its order; an application whose result is
\* empty leaves dataForAnalysis and filtersApplied unchanged; and the workflow
\* returns true only if some application gave a non-empty result.
C29_FilteringWorkflow ==
    /\ [](InWorkflow =>
            /\ dataForAnalysis # <<>>
            /\ IsSubsequence(dataForAnalysis, originalData))
    /\ []((fpc = "returned" /\ wasFiltered) =>
            \E i \in 1..Len(applied) : applied[i] # <<>>)
    /\ [][EmptyFilterStep => UNCHANGED <<dataForAnalysis, filtersApplied>>]_vars

\* C29 witness: three applications, the second empty, the third cumulative,
\* leaving a proper subsequence that is not a prefix or suffix of the original
C29_Witness ==
    /\ fpc = "returned"
    /\ wasFiltered
    /\ Len(applied) = 3
    /\ applied[1] # <<>>
    /\ applied[2] = <<>>
    /\ filtersApplied = 2
    /\ Len(originalData) = 3
    /\ dataForAnalysis = <<originalData[1], originalData[3]>>

\* C29 witness: every application came back empty, the workflow reports no filtering
C29_NothingKeptWitness ==
    /\ fpc = "returned"
    /\ ~wasFiltered
    /\ Len(applied) = 2
    /\ dataForAnalysis = originalData

\* C29 witness: a fresh filter after a cumulative one resets the count to 1
C29_FreshWitness ==
    /\ fpc = "loop"
    /\ Len(applied) = 3
    /\ \A i \in 1..3 : applied[i] # <<>>
    /\ filtersApplied = 1
    /\ Len(dataForAnalysis) > Len(applied[2])

----------------------------------------------------------------------------
(* The aggregator and the order of its input *)

\* Every reordering of the loaded records
Reorderings ==
    { [i \in 1..Len(records) |-> records[f[i]]] : f \in Permutations(1..Len(records)) }

\* Every Bar sequence computeCandlesticks can return for recs
Outputs(recs) ==
    IF recs = <<>> THEN {<<>>}
    ELSE { BuildCandlesticks(impl, sorted, timeframe) : sorted \in SortOutcomes(recs) }

\* C30: computeCandlesticks returns the same Bar sequence for every reordering
\* of the same records with the same timeframe, whatever order std::sort
\* leaves records with equal dates in.
C30_OrderIndependent ==
    Done => \A recs \in Reorderings : Outputs(recs) = {candlesticks}

\* C30 witness: three records given out of date order, two of them with the
\* same date and different temperatures, the third in another period
C30_Witness ==
    /\ Done
    /\ Len(records) = 3
    /\ Len(candlesticks) = 2
    /\ StrLess(records[2].date, records[1].date)
    /\ records[1].date = records[3].date
    /\ records[1].temperature # records[3].temperature


====
